---- MODULE Spec2Model ----
(***************************************************************************)
(* A model of the usftp SFTP client: the session (handshake, request-id    *)
(* allocation, Ls, Get), the background reader that routes responses to    *)
(* per-id channels, and the remote server as the environment.              *)
(***************************************************************************)
EXTENDS Integers, Sequences, FiniteSets, Bags, TLC

----------------------------------------------------------------------------
(* Bounds of the model. *)

\* calls of Ls and Get started in one behaviour of Spec
MaxOps == 2
\* directory entries the server lists to one call of Ls (in SpecData)
MaxEntries == 2
\* DataResponses the server gives to one call of Get (in SpecData)
MaxData == 2
\* length of the remote file a Get reads (in SpecFile)
MaxFile == 2
\* depth of the remote directory tree below the directory Find lists (in SpecFind)
MaxDepth == 2
\* entries shown to one UnseenFileVisitor (in SpecVisit)
MaxVisits == 2
\* the greatest mode value String is called with
MaxMode == 65535
\* the greatest number of entries of a decoded name response
MaxNames == 2
\* the greatest length of the payload of a framed message
MaxPayload == 2
\* the greatest number of characters of a path that is marshaled
MaxPath == 3

\* the goroutines that call Ls and Get on the session, two at a time
Callers == {1, 2}

----------------------------------------------------------------------------
(* Protocol constants. *)

SSH_FXP_INIT == 1
SSH_FXP_VERSION == 2
SSH_FXP_OPEN == 3
SSH_FXP_CLOSE == 4
SSH_FXP_READ == 5
SSH_FXP_OPENDIR == 11
SSH_FXP_READDIR == 12
SSH_FXP_STATUS == 101
SSH_FXP_HANDLE == 102
SSH_FXP_DATA == 103
SSH_FXP_NAME == 104
SSH_FXP_EXTENDED == 200

SSH_FX_OK == 0
SSH_FX_EOF == 1
SSH_FX_NO_SUCH_FILE == 2
SSH_FX_FAILURE == 4

SSH_FXF_READ == 1

\* len := uint32(255 * 1024) in Get
ChunkLen == 255 * 1024

----------------------------------------------------------------------------
(* Bits. *)

\* a & b on unsigned integers
RECURSIVE BitAnd(_, _)
BitAnd(a, b) ==
    IF a = 0 \/ b = 0 THEN 0
    ELSE (a % 2) * (b % 2) + 2 * BitAnd(a \div 2, b \div 2)

----------------------------------------------------------------------------
(* Decoding of a NameResp. An unsigned integer of the wire is the sequence of
   its bytes, most significant first, so that every value keeps its width. *)

Zero32 == <<0, 0, 0, 0>>
Zero64 == <<0, 0, 0, 0, 0, 0, 0, 0>>

\* Attribute Flag Masks
SSH_FILEXFER_ATTR_SIZE == <<0, 0, 0, 1>>
SSH_FILEXFER_ATTR_UIDGID == <<0, 0, 0, 2>>
SSH_FILEXFER_ATTR_PERMISSIONS == <<0, 0, 0, 4>>
SSH_FILEXFER_ATTR_ACMODTIME == <<0, 0, 0, 8>>
SSH_FILEXFER_ATTR_EXTENDED == <<128, 0, 0, 0>>

\* flags&mask != 0
HasFlag(flags, mask) == \E k \in 1..4 : BitAnd(flags[k], mask[k]) # 0

\* the value of a word that is less than 2^24
Low24(w) == (w[2] * 256 + w[3]) * 256 + w[4]

\* F(x), with x evaluated once
Once(F(_), x) == CHOOSE y \in {F(v) : v \in {x}} : TRUE

\* a value and the rest of the buffer, or a panic (a slice out of range, or
\* the panic of UnmarshalBinary)
Read(v, b) == [v |-> v, b |-> b, panic |-> FALSE]
Panic == [v |-> <<>>, b |-> <<>>, panic |-> TRUE]

\* Uint32(b): binary.BigEndian.Uint32(b), b[4:]
Uint32(b) ==
    Once(LAMBDA s : IF Len(s) < 4 THEN Panic
                    ELSE Read(SubSeq(s, 1, 4), SubSeq(s, 5, Len(s))), b)

Uint64As32(b) ==
    Once(LAMBDA s : IF Len(s) < 8 THEN Panic
                    ELSE Read(SubSeq(s, 1, 8), SubSeq(s, 5, Len(s))), b)

\* Uint64(b): binary.BigEndian.Uint64(b), b[8:]
Uint64(b) ==
    Once(LAMBDA s : IF Len(s) < 8 THEN Panic
                    ELSE Read(SubSeq(s, 1, 8), SubSeq(s, 9, Len(s))), b)

\* String(b): l, b := Uint32(b); string(b[0:l]), b[l:]
String_(b) ==
    Once(LAMBDA l : IF l.panic THEN Panic
                    ELSE IF l.v[1] # 0 \/ Low24(l.v) > Len(l.b) THEN Panic
                    ELSE Read(SubSeq(l.b, 1, Low24(l.v)),
                              SubSeq(l.b, Low24(l.v) + 1, Len(l.b))),
         Uint32(b))

\* NameRespFile{}, with the flag word
ZeroFile ==
    [Filename |-> <<>>, Longname |-> <<>>, flags |-> Zero32,
     Size |-> Zero64, Uid |-> Zero32, Gid |-> Zero32, Permissions |-> Zero32,
     Atime |-> Zero32, Mtime |-> Zero32, ExtendedCount |-> Zero32]

\* the reads of one turn of the loop of NameResp.UnmarshalBinary, in order:
\* the field, the function that reads it, and the flag the read depends on
\* (none: the field is always read)
EntryReads ==
    <<[field |-> "Filename", read |-> "String", mask |-> <<>>],
      [field |-> "Longname", read |-> "String", mask |-> <<>>],
      [field |-> "flags", read |-> "Uint32", mask |-> <<>>],
      [field |-> "Size", read |-> "Uint64", mask |-> SSH_FILEXFER_ATTR_SIZE],
      [field |-> "Uid", read |-> "Uint32", mask |-> SSH_FILEXFER_ATTR_UIDGID],
      [field |-> "Gid", read |-> "Uint32", mask |-> SSH_FILEXFER_ATTR_UIDGID],
      [field |-> "Permissions", read |-> "Uint32", mask |-> SSH_FILEXFER_ATTR_PERMISSIONS],
      [field |-> "Atime", read |-> "Uint32", mask |-> SSH_FILEXFER_ATTR_ACMODTIME],
      [field |-> "Mtime", read |-> "Uint32", mask |-> SSH_FILEXFER_ATTR_ACMODTIME],
      [field |-> "ExtendedCount", read |-> "Uint32", mask |-> SSH_FILEXFER_ATTR_EXTENDED]>>

\* the k-th read: st.v is the entry so far, st.b the rest of the buffer
entryRead(st, k) ==
    LET s == EntryReads[k]
    IN  IF st.panic THEN st
        ELSE IF s.mask # <<>> /\ ~HasFlag(st.v.flags, s.mask) THEN st
        ELSE Once(LAMBDA r : IF r.panic THEN Panic
                             ELSE Read([st.v EXCEPT ![s.field] = r.v], r.b),
                  CASE s.read = "String" -> String_(st.b)
                    [] s.read = "Uint64" -> Uint64(st.b)
                    [] OTHER -> Uint32(st.b))

\* the reads from the k-th on
RECURSIVE entryReads(_, _)
entryReads(st, k) ==
    IF k > Len(EntryReads) THEN st
    ELSE Once(LAMBDA x : entryReads(x, k + 1), entryRead(st, k))

\* one turn of the loop of NameResp.UnmarshalBinary: the entry read from b
\* and the rest of b; it panics when the extended count is not 0
NameRespFileOf(b) ==
    Once(LAMBDA st :
            IF st.panic THEN Panic
            ELSE IF st.v.ExtendedCount # Zero32 THEN Panic
            ELSE Read([Filename |-> st.v.Filename, Longname |-> st.v.Longname,
                       Attrs |-> [Size |-> st.v.Size, Uid |-> st.v.Uid,
                                  Gid |-> st.v.Gid,
                                  Permissions |-> st.v.Permissions,
                                  Atime |-> st.v.Atime, Mtime |-> st.v.Mtime,
                                  ExtendedCount |-> st.v.ExtendedCount,
                                  ExtendedType |-> <<>>, ExtendedData |-> <<>>]],
                      st.b),
         entryReads(Read(ZeroFile, b), 1))

\* the loop of NameResp.UnmarshalBinary: n entries are still to be read
RECURSIVE unmarshalNames(_, _, _)
unmarshalNames(b, n, names) ==
    IF n = 0 THEN Read(names, b)
    ELSE Once(LAMBDA f : IF f.panic THEN Panic
                         ELSE unmarshalNames(f.b, n - 1, Append(names, f.v)),
              NameRespFileOf(b))

\* NameResp.UnmarshalBinary(b): the message, and the bytes it has not read
NameRespUnmarshalBinary(b) ==
    LET id == Uint32(b)
        count == Uint32(id.b)
    IN  IF id.panic \/ count.panic \/ count.v[1] # 0
        THEN [panic |-> TRUE]
        ELSE Once(LAMBDA names :
                    IF names.panic THEN [panic |-> TRUE]
                    ELSE [panic |-> FALSE,
                          r |-> [Id |-> id.v, Count |-> count.v, Names |-> names.v],
                          b |-> names.b],
                  unmarshalNames(count.b, Low24(count.v), <<>>))

\* WriteUint32, WriteUint64 (of a value below 2^31), WriteUint8, WriteString:
\* the bytes written, most significant first
WriteUint32(n) ==
    <<(n \div 16777216) % 256, (n \div 65536) % 256, (n \div 256) % 256, n % 256>>
WriteUint64(n) == <<0, 0, 0, 0>> \o WriteUint32(n)
WriteUint8(n) == <<n>>
WriteString(str) == WriteUint32(Len(str)) \o str

AttrFlags == {"SIZE", "UIDGID", "PERMISSIONS", "ACMODTIME", "EXTENDED"}

\* the flag word of a set of flags
FlagWord(flags) ==
    <<IF "EXTENDED" \in flags THEN 128 ELSE 0, 0, 0,
      (IF "SIZE" \in flags THEN 1 ELSE 0) + (IF "UIDGID" \in flags THEN 2 ELSE 0)
      + (IF "PERMISSIONS" \in flags THEN 4 ELSE 0)
      + (IF "ACMODTIME" \in flags THEN 8 ELSE 0)>>

\* the k-th entry of a name response, with the attributes of flags and ext
\* extension pairs; every value is different from 0 and from the others
WireEntry(k, flags, ext) ==
    [Filename |-> <<96 + k>>, Longname |-> [j \in 1..k |-> 108],
     flags |-> flags, ext |-> ext,
     Size |-> WriteUint64(16 * k + 1), Uid |-> WriteUint32(16 * k + 2),
     Gid |-> WriteUint32(16 * k + 3), Permissions |-> WriteUint32(16 * k + 4),
     Atime |-> WriteUint32(16 * k + 5), Mtime |-> WriteUint32(16 * k + 6)]

\* the bytes of an entry: the attributes of its flags, in the order of the
\* protocol, and nothing for the others
EntryBytes(e) ==
    WriteString(e.Filename) \o WriteString(e.Longname) \o FlagWord(e.flags)
    \o (IF "SIZE" \in e.flags THEN e.Size ELSE <<>>)
    \o (IF "UIDGID" \in e.flags THEN e.Uid \o e.Gid ELSE <<>>)
    \o (IF "PERMISSIONS" \in e.flags THEN e.Permissions ELSE <<>>)
    \o (IF "ACMODTIME" \in e.flags THEN e.Atime \o e.Mtime ELSE <<>>)
    \o (IF "EXTENDED" \in e.flags
        THEN WriteUint32(e.ext)
             \o (IF e.ext = 0 THEN <<>> ELSE WriteString(<<116>>) \o WriteString(<<100>>))
        ELSE <<>>)

RECURSIVE EntriesBytes(_)
EntriesBytes(entries) ==
    IF entries = <<>> THEN <<>>
    ELSE EntryBytes(Head(entries)) \o EntriesBytes(Tail(entries))

\* the payload of a name response with the id and the entries
NameRespBytes(id, entries) ==
    WriteUint32(id) \o WriteUint32(Len(entries)) \o EntriesBytes(entries)

\* the entries a server sends as the k-th of a response: every combination
\* of flags without extension pairs, and two with one extension pair
WireEntries(k) ==
    {WireEntry(k, flags, 0) : flags \in SUBSET AttrFlags}
    \cup {WireEntry(k, flags, 1) : flags \in {{"EXTENDED"}, AttrFlags}}

\* the responses of n entries
RECURSIVE WireLists(_)
WireLists(n) ==
    IF n = 0 THEN {<<>>}
    ELSE {Append(l, e) : l \in WireLists(n - 1), e \in WireEntries(n)}

----------------------------------------------------------------------------
(* Values. *)

\* a nil Msg interface value
Nil == [T |-> "nil"]
\* what the handler holds after read() returned (nil, io.EOF)
NilEOF == [T |-> "nil", err |-> "EOF"]
\* the end of the stream the reader reads from: the remote side closed it
EndOfStream == [End |-> TRUE]
\* a nil channel: the zero value a map read yields for a missing key
NilChan == 0

\* Message types that embed Header and so implement sequence (id()).
SequenceTypes ==
    {"OpenDirReq", "ReadDirReq", "HandleResp", "StatusResp", "NameResp",
     "CloseReq", "OpenReq", "ReadReq", "DataResp"}

\* msg.(sequence): whether the message reports a request id
IsSequence(m) == m.T \in SequenceTypes

\* packet.message(): the message a packet decodes to; an unknown type tag
\* yields (nil, error).
message(p) ==
    CASE p.Type = SSH_FXP_VERSION -> [T |-> "VersionResp", Version |-> p.Version]
      [] p.Type = SSH_FXP_STATUS ->
            [T |-> "StatusResp", Id |-> p.Id, ErrorCode |-> p.ErrorCode,
             ErrorMessage |-> p.ErrorMessage]
      [] p.Type = SSH_FXP_HANDLE -> [T |-> "HandleResp", Id |-> p.Id, Handle |-> p.Handle]
      [] p.Type = SSH_FXP_NAME ->
            IF "Payload" \in DOMAIN p
            THEN LET r == NameRespUnmarshalBinary(p.Payload).r
                 IN  [T |-> "NameResp", Id |-> Low24(r.Id), Names |-> r.Names]
            ELSE [T |-> "NameResp", Id |-> p.Id, Names |-> p.Names]
      [] p.Type = SSH_FXP_DATA -> [T |-> "DataResp", Id |-> p.Id, Data |-> p.Data]
      [] OTHER -> Nil

\* packet.message() panics: the packet is a name response given by its
\* bytes, and UnmarshalBinary panics on them
panics(p) ==
    /\ p.Type = SSH_FXP_NAME
    /\ "Payload" \in DOMAIN p
    /\ NameRespUnmarshalBinary(p.Payload).panic

\* TypeId(m): the type tag writer.write frames a request with
TypeId(m) ==
    CASE m.T = "InitReq" -> SSH_FXP_INIT
      [] m.T = "OpenDirReq" -> SSH_FXP_OPENDIR
      [] m.T = "ReadDirReq" -> SSH_FXP_READDIR
      [] m.T = "CloseReq" -> SSH_FXP_CLOSE
      [] m.T = "OpenReq" -> SSH_FXP_OPEN
      [] m.T = "ReadReq" -> SSH_FXP_READ

\* strconv of the small numbers that appear in error texts
Itoa(n) == <<"0", "1", "2", "3", "4", "5", "6", "7", "8", "9">>[n + 1]

\* fmt.Errorf(format, arg): the error text, as its format and its argument
Errorf(format, arg) == <<format, arg>>

\* the %T rendering of a message
TypeName(m) == m.T

Range(s) == {s[k] : k \in DOMAIN s}

----------------------------------------------------------------------------
(* Filenames are byte strings; Go compares strings bytewise. *)

RECURSIVE StrLess(_, _)
StrLess(a, b) ==
    IF b = <<>> THEN FALSE
    ELSE IF a = <<>> THEN TRUE
    ELSE IF Head(a) # Head(b) THEN Head(a) < Head(b)
    ELSE StrLess(Tail(a), Tail(b))

\* names[i].Filename > names[j].Filename: the comparison reversed
FilenameGreater(x, y) == StrLess(y.Filename, x.Filename)

\* less of sort.Slice in Ls
FilenameLess(x, y) == StrLess(x.Filename, y.Filename)

IsSortedBy(s) ==
    \A k \in 1..(Len(s) - 1) : ~FilenameLess(s[k + 1], s[k])

SeqBag(s) ==
    LET vals == Range(s)
    IN  [v \in vals |-> Cardinality({k \in DOMAIN s : s[k] = v})]

\* sort.Slice is not stable: any ordering of the slice's elements that is
\* sorted by less is a possible outcome.
SortSlice(s) ==
    {t \in [DOMAIN s -> Range(s)] : SeqBag(t) = SeqBag(s) /\ IsSortedBy(t)}

----------------------------------------------------------------------------
(* State. *)

VARIABLES
    seq,        \* Session.seq
    rChan,      \* reader.rChan: request id -> channel
    nchan,      \* number of channels made so far (a channel is its number)
    rChanMtx,   \* reader.rChanMtx: TRUE while the handler holds it
    ctxDone,    \* the session context is cancelled
    closed,     \* the ssh session (both pipes) is closed
    pending,    \* requests written to the stream that the server has not answered
    first,      \* type of the first message written to the stream
    inbox,      \* packets the server has written, not yet read by the reader
    remote,     \* what the remote server may answer with
    budget,     \* operations that may still be started
    rpc,        \* reader.handler: position in the loop
    rmsg,       \* reader.handler: msg
    rch,        \* reader.handler: the channel it is sending msg on
    ipc,        \* NewSession / Session.init: position
    initMsg,    \* Session.init: the message received on channel 0
    initErr,    \* Session.init: returned error (<<>> is nil)
    cpc,        \* Session.Close: position
    waiting,    \* the callers that were waiting for a response when Close was called
    op,         \* per caller: the Ls or Get call it runs
    arg,        \* the arguments of the function that is called on its own
    out         \* what that function returned

vars ==
    <<seq, rChan, nchan, rChanMtx, ctxDone, closed, pending, first, inbox,
      remote, budget, rpc, rmsg, rch, ipc, initMsg, initErr, cpc, waiting, op,
      arg, out>>

netVars == <<pending, first, inbox>>
readerVars == <<rpc, rmsg, rch>>
initVars == <<ipc, initMsg, initErr>>
closeVars == <<ctxDone, closed, cpc, waiting>>
envVars == <<remote>>
pureVars == <<arg, out>>
sessionVars ==
    <<seq, rChan, nchan, rChanMtx, netVars, readerVars, initVars, closeVars,
      envVars, budget, op>>

NoErr == <<>>
\* io.EOF
EOF == <<"EOF", "">>
\* an error of the stream other than io.EOF
ErrStream == <<"stream", "">>
\* the errors w.w.Write may return once the ssh session is closed
WriteErrors == {EOF, ErrStream}
\* the error of the caller's io.Writer
ErrSink == <<"sink", "">>

Path == "/share"

Op0 ==
    [pc |-> "idle", kind |-> "none", id |-> 0, read |-> NilChan, handle |-> "",
     names |-> <<>>, sink |-> <<>>, offset |-> 0, res |-> "none", err |-> NoErr,
     ret |-> <<>>, inWrite |-> FALSE, log |-> <<>>]

\* directory entries the server may list
File(name, size) == [Filename |-> name, Size |-> size]
Entries ==
    {File(<<46>>, 0), File(<<97>>, 1), File(<<97>>, 2), File(<<97, 98>>, 1)}

\* the listings of one to n of the entries E
NameLists(E, n) == UNION {[1..k -> E] : k \in 1..n}

\* the answers a server may give to the Init request: a version, a status
\* or a packet of a type the client does not know
Hello(versions) ==
    {[Type |-> SSH_FXP_VERSION, Version |-> v] : v \in versions}
    \cup {[Type |-> SSH_FXP_STATUS, Id |-> 0, ErrorCode |-> SSH_FX_FAILURE,
           ErrorMessage |-> "Failure"],
          [Type |-> SSH_FXP_EXTENDED]}

\* a status the server may send: its code and its message
Status(code, text) == [ErrorCode |-> code, ErrorMessage |-> text]

\* the server of Spec: it speaks version 3 and answers every request with a
\* handle or a status
RemoteSmall ==
    [hello |-> {[Type |-> SSH_FXP_VERSION, Version |-> 3]},
     handles |-> {"h1"},
     statuses |-> {Status(SSH_FX_OK, "Success"), Status(SSH_FX_EOF, "End of file"),
                   Status(SSH_FX_FAILURE, "Failure")},
     entries |-> {},
     maxEntries |-> 0,
     data |-> {},
     maxData |-> 0,
     file |-> <<>>,
     serves |-> "any",
     unknown |-> {},
     extended |-> {},
     stray |-> {}]

\* the server of SpecHello: any answer to Init
RemoteHello == [RemoteSmall EXCEPT !.hello = Hello({3, 2})]

\* the server of SpecData: listings and file data
RemoteData ==
    [hello |-> {[Type |-> SSH_FXP_VERSION, Version |-> 3]},
     handles |-> {"h1", "h2"},
     statuses |-> {Status(SSH_FX_OK, "Success"), Status(SSH_FX_EOF, "End of file"),
                   Status(SSH_FX_NO_SUCH_FILE, "No such file"),
                   Status(SSH_FX_FAILURE, "Failure")},
     entries |-> Entries,
     maxEntries |-> MaxEntries,
     data |-> {<<97>>, <<98, 99>>},
     maxData |-> MaxData,
     file |-> <<>>,
     serves |-> "any",
     unknown |-> {},
     extended |-> {},
     stray |-> {}]

\* the contents a remote file may have: the bytes 'a', 'b', ... in order
FileOfLen(n) == [k \in 1..n |-> 96 + k]
Files == {FileOfLen(n) : n \in 0..MaxFile}

\* the server of SpecFile: it holds the file f and answers a read at an offset
\* with bytes of f from that offset on
RemoteFile(f) == [RemoteSmall EXCEPT !.file = f, !.serves = "file"]

\* the server of SpecJunk: it may also answer a request with a packet whose
\* type tag the client does not know
RemoteJunk == [RemoteSmall EXCEPT !.unknown = {[Type |-> SSH_FXP_EXTENDED]}]

\* the server of SpecExt: it answers a ReadDir with a name response of one
\* entry, without or with an extension pair in its attributes
RemoteExt ==
    [RemoteSmall EXCEPT !.maxEntries = 1,
                        !.extended = {<<WireEntry(1, {"SIZE"}, 0)>>,
                                      <<WireEntry(1, {"EXTENDED"}, 1)>>}]

\* the server of SpecStray: it may answer an OpenDir or an Open with a status
\* that reports an id no call of the session has
RemoteStray == [RemoteSmall EXCEPT !.stray = {MaxOps + 1}]

\* no function is called on its own
NoArg == [fn |-> "none"]
NoOut == [done |-> FALSE]

\* the session NewSession has built, with the server r and b calls to come
NewSessionState(r, b) ==
    /\ seq = 0
    /\ rChan = [k \in {} |-> NilChan]
    /\ nchan = 0
    /\ rChanMtx = FALSE
    /\ ctxDone = FALSE
    /\ closed = FALSE
    /\ pending = {}
    /\ first = "none"
    /\ inbox = <<>>
    /\ remote = r
    /\ budget = b
    /\ rpc = "select"
    /\ rmsg = Nil
    /\ rch = NilChan
    /\ ipc = "write"
    /\ initMsg = Nil
    /\ initErr = NoErr
    /\ cpc = "idle"
    /\ waiting = {}
    /\ op = [i \in Callers |-> Op0]

InitWith(r, b) ==
    /\ arg = NoArg
    /\ out = NoOut
    /\ NewSessionState(r, b)

\* a function called on its own with the arguments a: the session is idle
InitPure(a) ==
    /\ arg = a
    /\ out = NoOut
    /\ NewSessionState(RemoteSmall, 0)

\* NewSession up to the call of s.init(): the session is built and the
\* handler goroutine is started.
Init == InitWith(RemoteSmall, MaxOps)

----------------------------------------------------------------------------
(* writer.write and the pending-request table. *)

\* writer.write(m) by caller `by` (0 is init): the frame goes to the stream
\* in one Write call; Write fails once the ssh session is closed.
write(by, m) ==
    IF closed
    THEN UNCHANGED <<pending, first>>
    ELSE /\ pending' = pending \cup {[by |-> by, m |-> m]}
         /\ first' = IF first = "none" THEN m.T ELSE first

\* reader.getChan(s): the channel of id s, made on first use
getChan(s) ==
    IF s \in DOMAIN rChan
    THEN UNCHANGED <<rChan, nchan>>
    ELSE /\ nchan' = nchan + 1
         /\ rChan' = [k \in DOMAIN rChan \cup {s} |->
                        IF k = s THEN nchan + 1 ELSE rChan[k]]

\* the channel getChan(s) returns
chanOf(s) == IF s \in DOMAIN rChan THEN rChan[s] ELSE nchan + 1

\* reader.delChan(s)
delChan(s) ==
    rChan' = [k \in DOMAIN rChan \ {s} |-> rChan[k]]

----------------------------------------------------------------------------
(* reader.handler: the background goroutine. *)

\* select { case <-ctx.Done(): return nil; default: ... }
HandlerSelect ==
    /\ rpc = "select"
    /\ rpc' = IF ctxDone THEN "done" ELSE "read"
    /\ UNCHANGED <<seq, rChan, nchan, rChanMtx, netVars, rmsg, rch, initVars,
                   closeVars, envVars, pureVars, budget, op>>

\* the stream the reader reads from is at its end: it was closed by
\* Session.Close or by the remote side, and every packet has been read
AtEnd == IF inbox = <<>> THEN closed ELSE Head(inbox) = EndOfStream

\* msg, err := s.r.read(): blocks until a packet is there; at the end of the
\* stream it returns io.EOF and the loop continues with the select. A panic
\* in UnmarshalBinary is not recovered: it ends the handler and the process.
HandlerRead ==
    /\ rpc = "read"
    /\ IF AtEnd
       THEN /\ rmsg' = NilEOF
            /\ rpc' = "select"
            /\ UNCHANGED inbox
       ELSE /\ inbox # <<>>
            /\ inbox' = Tail(inbox)
            /\ IF panics(Head(inbox))
               THEN rmsg' = Nil /\ rpc' = "panic"
               ELSE rmsg' = message(Head(inbox)) /\ rpc' = "lock"
    /\ UNCHANGED <<seq, rChan, nchan, rChanMtx, pending, first, rch, initVars,
                   closeVars, envVars, pureVars, budget, op>>

\* a handler that sends to the channel of the lowest id in the table,
\* whatever id the message reports
routeChanLowest(m) ==
    IF DOMAIN rChan # {}
    THEN rChan[CHOOSE k \in DOMAIN rChan : \A l \in DOMAIN rChan : k <= l]
    ELSE NilChan

\* the channel the handler sends msg on: that of the id the message reports,
\* made if missing; for a message without id, whatever rChan[0] holds
routeChan(m) ==
    IF IsSequence(m) THEN chanOf(m.Id)
    ELSE IF 0 \in DOMAIN rChan THEN rChan[0] ELSE NilChan

\* s.r.rChanMtx.Lock() and the choice of the channel; the send that follows
\* blocks, with the mutex held, until a goroutine receives from the channel.
HandlerLock ==
    /\ rpc = "lock"
    /\ ~rChanMtx
    /\ rChanMtx' = TRUE
    /\ rch' = routeChan(rmsg)
    /\ IF IsSequence(rmsg) THEN getChan(rmsg.Id) ELSE UNCHANGED <<rChan, nchan>>
    /\ rpc' = "send"
    /\ UNCHANGED <<seq, netVars, rmsg, initVars, closeVars, envVars, pureVars, budget, op>>

\* a goroutine receiving from channel c takes the handler's message
CanReceive(c) == rpc = "send" /\ rch # NilChan /\ rch = c

\* a handler that unlocks the mutex only after the send of a message
\* without id
HandlerSentLocked ==
    /\ rpc' = "select"
    /\ rChanMtx' = IsSequence(rmsg)
    /\ rmsg' = Nil
    /\ rch' = NilChan

\* the send completes: s.r.rChanMtx.Unlock() and the next iteration
HandlerSent ==
    /\ rpc' = "select"
    /\ rChanMtx' = FALSE
    /\ rmsg' = Nil
    /\ rch' = NilChan

----------------------------------------------------------------------------
(* The remote server. *)

\* the messages of type T caller i has received in its call
Received(i, T) ==
    {k \in DOMAIN op[i].log : op[i].log[k].d = "r" /\ op[i].log[k].m.T = T}

\* number of directory entries caller i has received in its call
EntriesGot(i) == Len(op[i].names)

HandlePackets(id) ==
    {[Type |-> SSH_FXP_HANDLE, Id |-> id, Handle |-> h] : h \in remote.handles}

StatusPackets(id) ==
    {[Type |-> SSH_FXP_STATUS, Id |-> id, ErrorCode |-> st.ErrorCode,
      ErrorMessage |-> st.ErrorMessage] : st \in remote.statuses}

NamePackets(id, room) ==
    {[Type |-> SSH_FXP_NAME, Id |-> id, Names |-> n] :
        n \in NameLists(remote.entries, room)}

DataPackets(id, room) ==
    IF room <= 0 THEN {}
    ELSE {[Type |-> SSH_FXP_DATA, Id |-> id, Data |-> d] : d \in remote.data}

\* name responses given by their bytes
ExtPackets(id, room) ==
    IF room <= 0 THEN {}
    ELSE {[Type |-> SSH_FXP_NAME, Id |-> id, Payload |-> NameRespBytes(id, e)] :
            e \in remote.extended}

\* the answers of a file server to a read of len bytes at offset: between 1
\* and len of the bytes that remain from offset on, or the EOF status once
\* offset is at or past the end of the file
FilePackets(id, offset, len) ==
    LET f == remote.file
        left == Len(f) - offset
        most == IF left < len THEN left ELSE len
    IN  IF left <= 0
        THEN {[Type |-> SSH_FXP_STATUS, Id |-> id, ErrorCode |-> SSH_FX_EOF,
               ErrorMessage |-> "End of file"]}
        ELSE {[Type |-> SSH_FXP_DATA, Id |-> id,
               Data |-> SubSeq(f, offset + 1, offset + n)] : n \in 1..most}

\* the packets the server may answer request r with. Init: one of its
\* hellos. Any other request: a status, the response the request asks for
\* (a handle, a listing, file data), or a response of a type the request
\* does not ask for; each carries the id of the request.
Responses(r) ==
    LET id == r.m.Id
        entriesLeft == remote.maxEntries - EntriesGot(r.by)
        dataLeft == remote.maxData - Cardinality(Received(r.by, "DataResp"))
    IN  CASE r.m.T = "InitReq" -> remote.hello
          [] r.m.T \in {"OpenDirReq", "OpenReq"} ->
                HandlePackets(id) \cup StatusPackets(id) \cup DataPackets(id, 1)
                    \cup remote.unknown
                    \cup UNION {StatusPackets(x) : x \in remote.stray}
          [] r.m.T = "ReadDirReq" ->
                NamePackets(id, entriesLeft) \cup StatusPackets(id) \cup HandlePackets(id)
                    \cup ExtPackets(id, entriesLeft)
          [] r.m.T = "ReadReq" ->
                IF remote.serves = "file"
                THEN FilePackets(id, r.m.Offset, r.m.Len)
                ELSE DataPackets(id, dataLeft) \cup StatusPackets(id)
                        \cup HandlePackets(id)
          [] r.m.T = "CloseReq" ->
                StatusPackets(id) \cup HandlePackets(id)

\* the remote side has closed the stream
Hungup == inbox # <<>> /\ inbox[Len(inbox)] = EndOfStream

\* the remote side closes the stream: the reader finds its end after the
\* packets already written
ServerHangup ==
    /\ ~closed
    /\ ~Hungup
    /\ inbox' = Append(inbox, EndOfStream)
    /\ UNCHANGED <<seq, rChan, nchan, rChanMtx, pending, first, readerVars,
                   initVars, closeVars, envVars, pureVars, budget, op>>

\* the server answers one of the requests it holds, in any order
ServerRespond ==
    /\ ~closed
    /\ ~Hungup
    /\ \E r \in pending :
          /\ pending' = pending \ {r}
          /\ \E p \in Responses(r) : inbox' = Append(inbox, p)
    /\ UNCHANGED <<seq, rChan, nchan, rChanMtx, first, readerVars, initVars,
                   closeVars, envVars, pureVars, budget, op>>

----------------------------------------------------------------------------
(* Session.init, called by NewSession. *)

\* s.w.write(&InitReq{Version: 3})
InitWrite ==
    /\ ipc = "write"
    /\ write(0, [T |-> "InitReq", Version |-> 3])
    /\ IF closed
       THEN ipc' = "ret" /\ initErr' \in WriteErrors
       ELSE ipc' = "getChan" /\ UNCHANGED initErr
    /\ UNCHANGED <<seq, rChan, nchan, rChanMtx, inbox, readerVars, initMsg,
                   closeVars, envVars, pureVars, budget, op>>

\* c := s.r.getChan(0)
InitGetChan ==
    /\ ipc = "getChan"
    /\ ~rChanMtx
    /\ getChan(0)
    /\ ipc' = "recv"
    /\ UNCHANGED <<seq, rChanMtx, netVars, readerVars, initMsg, initErr,
                   closeVars, envVars, pureVars, budget, op>>

\* an init that accepts a version acknowledgment of any version
initCheckAnyVersion(msg) ==
    IF msg.T = "VersionResp" THEN NoErr
    ELSE Errorf("unexpected msg type: %T for InitReq", TypeName(msg))

\* the error init returns for the message it received
initCheck(msg) ==
    IF msg.T = "VersionResp"
    THEN IF msg.Version # 3
         THEN Errorf("unhandled SFTP version: %d", Itoa(msg.Version))
         ELSE NoErr
    ELSE Errorf("unexpected msg type: %T for InitReq", TypeName(msg))

\* msg := <-c and the checks of the message
InitRecv ==
    /\ ipc = "recv"
    /\ CanReceive(rChan[0])
    /\ HandlerSent
    /\ initMsg' = rmsg
    /\ initErr' = initCheck(rmsg)
    /\ ipc' = "ret"
    /\ UNCHANGED <<seq, rChan, nchan, netVars, closeVars, envVars, pureVars, budget, op>>

\* defer s.r.delChan(0); init and NewSession return
InitReturn ==
    /\ ipc = "ret"
    /\ ~rChanMtx
    /\ delChan(0)
    /\ ipc' = "done"
    /\ UNCHANGED <<seq, nchan, rChanMtx, netVars, readerVars, initMsg, initErr,
                   closeVars, envVars, pureVars, budget, op>>

----------------------------------------------------------------------------
(* Ls and Get: the steps they share. *)

SetOp(i, o) == op' = [op EXCEPT ![i] = o]

\* the call's record of a request it wrote / a message it received
Wrote(o, m) == [o EXCEPT !.log = Append(@, [d |-> "w", m |-> m])]
Got(o, m) == [o EXCEPT !.log = Append(@, [d |-> "r", m |-> m])]

\* a call that returns, with its error, the names it has gathered
FailWithNames(o, e, next) ==
    [o EXCEPT !.res = "err", !.err = e, !.ret = o.names, !.pc = next]

\* the call returns (res, err); its deferred calls are still to run
Fail(o, e, next) == [o EXCEPT !.res = "err", !.err = e, !.ret = <<>>, !.pc = next]

\* the positions at which a call is about to write a request
WritePcs == {"openDir", "readDir", "open", "read", "close"}

\* writer.write up to its call of w.w.Write: the frame is built and the
\* goroutine enters Write on the stream; writer takes no lock
WriteEnter(i) ==
    /\ op[i].pc \in WritePcs
    /\ ~op[i].inWrite
    /\ SetOp(i, [op[i] EXCEPT !.inWrite = TRUE])
    /\ UNCHANGED <<seq, rChan, nchan, rChanMtx, netVars, readerVars, initVars,
                   closeVars, envVars, pureVars, budget>>

\* w.w.Write returns in a call: on error the call leaves through onErr,
\* otherwise it goes on to receive at onOk
CallWrite(i, m, onOk, onErr) ==
    /\ op[i].inWrite
    /\ write(i, m)
    /\ IF closed
       THEN SetOp(i, [onErr EXCEPT !.inWrite = FALSE])
       ELSE SetOp(i, [Wrote(op[i], m) EXCEPT !.pc = onOk, !.inWrite = FALSE])
    /\ UNCHANGED <<seq, rChan, nchan, rChanMtx, inbox, readerVars, initVars,
                   closeVars, envVars, pureVars, budget>>

\* msg := <-read in a call: the call goes on as `then` says
CallRecv(i, then) ==
    /\ CanReceive(op[i].read)
    /\ HandlerSent
    /\ SetOp(i, then)
    /\ UNCHANGED <<seq, rChan, nchan, netVars, initVars, closeVars, envVars, pureVars, budget>>

\* nextSeq, first half: atomic.AddUint32(&s.seq, 1)
nextSeqAdd(i, kind) ==
    /\ ipc = "done"
    /\ budget > 0
    /\ op[i].pc \in {"idle", "done"}
    \* the callers are interchangeable: they start in order
    /\ \A j \in Callers : j < i => op[j].pc # "idle"
    /\ seq' = seq + 1
    /\ budget' = budget - 1
    /\ SetOp(i, [Op0 EXCEPT !.pc = "nextSeq", !.kind = kind])
    /\ UNCHANGED <<rChan, nchan, rChanMtx, netVars, readerVars, initVars,
                   closeVars, envVars, pureVars>>

\* the value nextSeq returns: s.seq as it is when the return statement reads it
nextSeqValue == seq

\* nextSeq, second half: return s.seq (a plain read of the field)
NextSeqReturn(i) ==
    /\ op[i].pc = "nextSeq"
    /\ SetOp(i, [op[i] EXCEPT !.pc = "getChan", !.id = nextSeqValue])
    /\ UNCHANGED <<seq, rChan, nchan, rChanMtx, netVars, readerVars, initVars,
                   closeVars, envVars, pureVars, budget>>

\* read := s.r.getChan(id)
CallGetChan(i) ==
    /\ op[i].pc = "getChan"
    /\ ~rChanMtx
    /\ getChan(op[i].id)
    /\ SetOp(i, [op[i] EXCEPT !.read = chanOf(op[i].id),
                              !.pc = IF op[i].kind = "Ls" THEN "openDir" ELSE "open"])
    /\ UNCHANGED <<seq, rChanMtx, netVars, readerVars, initVars, closeVars,
                   envVars, pureVars, budget>>

\* handleOrStatusResp(msg)
handleOrStatusResp(msg) ==
    CASE msg.T = "HandleResp" -> [handle |-> msg, status |-> Nil, err |-> NoErr]
      [] msg.T = "StatusResp" -> [handle |-> Nil, status |-> msg, err |-> NoErr]
      [] OTHER -> [handle |-> Nil, status |-> Nil,
                   err |-> Errorf("unhandled message type %T", TypeName(msg))]

\* nameOrStatusResp(msg)
nameOrStatusResp(msg) ==
    CASE msg.T = "NameResp" -> [name |-> msg, status |-> Nil, err |-> NoErr]
      [] msg.T = "StatusResp" -> [name |-> Nil, status |-> msg, err |-> NoErr]
      [] OTHER -> [name |-> Nil, status |-> Nil,
                   err |-> Errorf("unhandled message type %T", TypeName(msg))]

\* the error Ls, OpenReq and ReadReq make of a status response
statusError(st) == Errorf("error: %s", st.ErrorMessage)

\* the request CloseReq writes
closeReqMsg(o) == [T |-> "CloseReq", Id |-> o.id, Handle |-> o.handle]

\* a call that returns the status of the close as its error
AfterCloseStatus(o) ==
    LET last == o.log[Len(o.log)]
    IN  IF last.d = "r" /\ last.m.T = "StatusResp" /\ last.m.ErrorCode # SSH_FX_OK
        THEN {Fail(o, statusError(last.m), "ret")}
        ELSE IF o.kind = "Ls"
        THEN {[o EXCEPT !.res = "ok", !.ret = sorted, !.pc = "ret"] :
                sorted \in SortSlice(o.names)}
        ELSE {[o EXCEPT !.pc = "ret"]}

\* what the call does once CloseReq has returned: Ls sorts and returns its
\* names, Get returns what it had decided to return
AfterClose(o) ==
    IF o.kind = "Ls"
    THEN {[o EXCEPT !.res = "ok", !.ret = sorted, !.pc = "ret"] :
            sorted \in SortSlice(o.names)}
    ELSE {[o EXCEPT !.pc = "ret"]}

\* CloseReq: s.w.write(&CloseReq{...}); a write error ends CloseReq
CloseReqWrite(i) ==
    /\ op[i].pc = "close"
    /\ op[i].inWrite
    /\ write(i, closeReqMsg(op[i]))
    /\ IF closed
       THEN \E o \in AfterClose(op[i]) : SetOp(i, [o EXCEPT !.inWrite = FALSE])
       ELSE SetOp(i, [Wrote(op[i], closeReqMsg(op[i])) EXCEPT
                         !.pc = "recvClose", !.inWrite = FALSE])
    /\ UNCHANGED <<seq, rChan, nchan, rChanMtx, inbox, readerVars, initVars,
                   closeVars, envVars, pureVars, budget>>

\* CloseReq: msg := <-read; its result is dropped by both callers
CloseReqRecv(i) ==
    /\ op[i].pc = "recvClose"
    /\ \E o \in AfterClose(Got(op[i], rmsg)) : CallRecv(i, o)

\* the deferred s.r.delChan(id); the call has returned
CallReturn(i) ==
    /\ op[i].pc = "ret"
    /\ ~rChanMtx
    /\ delChan(op[i].id)
    /\ SetOp(i, [op[i] EXCEPT !.pc = "done"])
    /\ UNCHANGED <<seq, nchan, rChanMtx, netVars, readerVars, initVars,
                   closeVars, envVars, pureVars, budget>>

----------------------------------------------------------------------------
(* Session.Ls *)

\* id := s.nextSeq()
Ls(i) == nextSeqAdd(i, "Ls")

\* s.w.write(&OpenDirReq{...}); a write error returns (nil, err)
LsOpenDir(i) ==
    /\ op[i].pc = "openDir"
    /\ \E e \in WriteErrors :
          CallWrite(i, [T |-> "OpenDirReq", Id |-> op[i].id, Path |-> Path],
                    "recvOpenDir", Fail(op[i], e, "ret"))

\* Ls after msg := <-read for the OpenDir request
lsOpened(o, msg) ==
    LET r == handleOrStatusResp(msg)
    IN  IF r.err # NoErr THEN Fail(o, r.err, "ret")
        ELSE IF r.handle # Nil
        THEN [o EXCEPT !.handle = r.handle.Handle, !.pc = "readDir"]
        ELSE Fail(o, statusError(r.status), "ret")

LsRecvOpenDir(i) ==
    /\ op[i].pc = "recvOpenDir"
    /\ CallRecv(i, lsOpened(Got(op[i], rmsg), rmsg))

\* readDirReq: s.w.write(&ReadDirReq{...})
LsReadDir(i) ==
    /\ op[i].pc = "readDir"
    /\ \E e \in WriteErrors :
          CallWrite(i, [T |-> "ReadDirReq", Id |-> op[i].id, Handle |-> op[i].handle],
                    "recvReadDir", Fail(op[i], e, "ret"))

\* names = nameResp.Names: the listing so far is dropped
appendNamesOverwrite(names, more) == more

\* names = append(names, nameResp.Names...)
appendNames(names, more) == names \o more

\* readDirReq after msg := <-read, and the body of the loop of Ls
lsRead(o, msg) ==
    LET r == nameOrStatusResp(msg)
    IN  IF r.err # NoErr THEN Fail(o, r.err, "ret")
        ELSE IF r.name # Nil
        THEN [o EXCEPT !.names = appendNames(@, r.name.Names), !.pc = "readDir"]
        ELSE IF r.status.ErrorCode = SSH_FX_EOF
        THEN [o EXCEPT !.pc = "close"]
        ELSE Fail(o, statusError(r.status), "ret")

LsRecvReadDir(i) ==
    /\ op[i].pc = "recvReadDir"
    /\ CallRecv(i, lsRead(Got(op[i], rmsg), rmsg))

----------------------------------------------------------------------------
(* Session.Get *)

\* id := s.nextSeq()
Get(i) == nextSeqAdd(i, "Get")

\* OpenReq: s.w.write(&OpenReq{...}); a write error returns ("", err)
GetOpen(i) ==
    /\ op[i].pc = "open"
    /\ \E e \in WriteErrors :
          CallWrite(i, [T |-> "OpenReq", Id |-> op[i].id, Filename |-> Path,
                        Pflags |-> SSH_FXF_READ],
                    "recvOpen", Fail(op[i], e, "ret"))

\* OpenReq after msg := <-read; Get returns its error, or defers CloseReq
getOpened(o, msg) ==
    LET r == handleOrStatusResp(msg)
    IN  IF r.err # NoErr THEN Fail(o, r.err, "ret")
        ELSE IF r.handle # Nil
        THEN [o EXCEPT !.handle = r.handle.Handle, !.pc = "read"]
        ELSE Fail(o, statusError(r.status), "ret")

GetRecvOpen(i) ==
    /\ op[i].pc = "recvOpen"
    /\ CallRecv(i, getOpened(Got(op[i], rmsg), rmsg))

\* a ReadReq for which only the EOF status ends the file
readReqResultEofOnly(msg) ==
    CASE msg.T = "DataResp" -> [b |-> msg.Data, err |-> NoErr]
      [] msg.T = "StatusResp" ->
            IF msg.ErrorCode = SSH_FX_EOF THEN [b |-> <<>>, err |-> EOF]
            ELSE [b |-> <<>>, err |-> statusError(msg)]
      [] OTHER -> [b |-> <<>>,
                   err |-> Errorf("unhandled message type %T", TypeName(msg))]

\* ReadReq after msg := <-read: (data, error)
readReqResult(msg) ==
    CASE msg.T = "DataResp" -> [b |-> msg.Data, err |-> NoErr]
      [] msg.T = "StatusResp" ->
            IF msg.ErrorCode = SSH_FX_EOF THEN [b |-> <<>>, err |-> EOF]
            ELSE IF msg.ErrorCode = SSH_FX_OK THEN [b |-> <<>>, err |-> EOF]
            ELSE [b |-> <<>>, err |-> statusError(msg)]
      [] OTHER -> [b |-> <<>>,
                   err |-> Errorf("unhandled message type %T", TypeName(msg))]

\* a Get that advances its offset by the number of bytes it received
nextOffsetByData(offset, b) == offset + Len(b)

\* offset += uint64(len), after out.Write(b)
nextOffset(offset, b) == offset + ChunkLen

\* a Get whose CloseReq is not deferred but follows the loop: the early
\* returns of the loop skip it
getLoopNoDefer(o, r, sinkOk) ==
    IF r.err # NoErr /\ r.err # EOF THEN Fail(o, r.err, "ret")
    ELSE IF ~sinkOk THEN Fail(o, ErrSink, "ret")
    ELSE IF r.err = EOF
    THEN [o EXCEPT !.offset = nextOffset(@, r.b), !.res = "ok", !.pc = "close"]
    ELSE [o EXCEPT !.sink = @ \o r.b, !.offset = nextOffset(@, r.b), !.pc = "read"]

\* the body of the loop of Get once ReadReq has returned r = (b, err);
\* sinkOk is whether out.Write succeeds. Every return runs the deferred
\* CloseReq.
getLoop(o, r, sinkOk) ==
    IF r.err # NoErr /\ r.err # EOF THEN Fail(o, r.err, "close")
    ELSE IF ~sinkOk THEN Fail(o, ErrSink, "close")
    ELSE IF r.err = EOF
    THEN [o EXCEPT !.offset = nextOffset(@, r.b), !.res = "ok", !.pc = "close"]
    ELSE [o EXCEPT !.sink = @ \o r.b, !.offset = nextOffset(@, r.b), !.pc = "read"]

\* ReadReq: s.w.write(&ReadReq{...}); a write error is what ReadReq returns
\* to the loop of Get
GetRead(i) ==
    /\ op[i].pc = "read"
    /\ \E sinkOk \in BOOLEAN, e \in WriteErrors :
          CallWrite(i, [T |-> "ReadReq", Id |-> op[i].id, Handle |-> op[i].handle,
                        Offset |-> op[i].offset, Len |-> ChunkLen],
                    "recvRead", getLoop(op[i], [b |-> <<>>, err |-> e], sinkOk))

GetRecvRead(i) ==
    /\ op[i].pc = "recvRead"
    /\ \E sinkOk \in BOOLEAN :
          CallRecv(i, getLoop(Got(op[i], rmsg), readReqResult(rmsg), sinkOk))

----------------------------------------------------------------------------
(* Session.Close *)

\* the call waits for a response on its channel
Blocked(o) == o.pc \in {"recvOpenDir", "recvReadDir", "recvOpen", "recvRead", "recvClose"}

\* s.cancel()
CloseCancel ==
    /\ ipc = "done"
    /\ cpc = "idle"
    /\ ctxDone' = TRUE
    /\ cpc' = "close"
    /\ waiting' = {i \in Callers : Blocked(op[i])}
    /\ UNCHANGED <<seq, rChan, nchan, rChanMtx, netVars, readerVars, initVars,
                   closed, envVars, pureVars, budget, op>>

\* s.s.Close(): the ssh session and its pipes are closed
CloseSession ==
    /\ cpc = "close"
    /\ closed' = TRUE
    /\ cpc' = "done"
    /\ UNCHANGED <<seq, rChan, nchan, rChanMtx, netVars, readerVars, initVars,
                   ctxDone, waiting, envVars, pureVars, budget, op>>

----------------------------------------------------------------------------
(* FileMode *)

ModeType == 61440
ModeDir == 16384
ModeRegular == 32768

\* FileMode.IsDir
IsDir(m) == BitAnd(m, ModeType) = ModeDir

\* FileMode.IsRegular
IsRegular(m) == BitAnd(m, ModeType) = ModeRegular

\* the letters "rwxrwxrwx", and the characters 'd' and '-'
Rwx == <<114, 119, 120, 114, 119, 120, 114, 119, 120>>
CharD == 100
CharDash == 45

permBitLsbFirst(m, i) == BitAnd(m, 2 ^ i) # 0

\* m&(1<<uint(9-1-i)) != 0, for the i-th letter (i from 0) of "rwxrwxrwx"
permBit(m, i) == BitAnd(m, 2 ^ (9 - 1 - i)) # 0

\* FileMode.String: the 10 bytes of b; b[0] stays 0 when the type is neither
\* a directory nor a regular file
String(m) ==
    LET t == BitAnd(m, ModeType)
        b0 == IF t = ModeDir THEN CharD
              ELSE IF t = ModeRegular THEN CharDash
              ELSE 0
    IN  <<b0>> \o [k \in 1..9 |-> IF permBit(m, k - 1) THEN Rwx[k] ELSE CharDash]

\* a call of m.String()
CallString ==
    /\ arg.fn = "String"
    /\ ~out.done
    /\ out' = [done |-> TRUE, s |-> String(arg.m)]
    /\ UNCHANGED <<arg, sessionVars>>

----------------------------------------------------------------------------
(* Session.Find, over the listings Ls returns for a remote directory tree. *)

\* the strings ".", ".." and "/"
Dot == <<46>>
DotDot == <<46, 46>>
Slash == <<47>>

\* fmt.Sprintf("%s/%s", parent, path)
SprintfPath(parent, path) == parent \o Slash \o path

\* an entry as Ls returns it
Node(name, perm) ==
    [Filename |-> name, Attrs |-> [Permissions |-> perm], Children |-> <<>>]

\* permissions of a directory (0755), a regular file (0644) and a symbolic
\* link (type 0xA000, 0777)
PermDir == ModeDir + 493
PermFile == ModeRegular + 420
PermLink == 40960 + 511

\* the directory Find is called on, "/s", and the directories "d" nested in it
RootPath == <<47, 115>>
NameD == <<100>>
NameF == <<102>>

RECURSIVE DirPath(_)
DirPath(k) == IF k = 0 THEN RootPath ELSE SprintfPath(DirPath(k - 1), NameD)

\* what the server lists for one directory, in the server's order: an entry
\* "f" or not, an entry "d" with some permissions or not, and "." and ".."
Listing(hasF, permD) ==
    [ok |-> TRUE,
     names |-> (IF hasF THEN <<Node(NameF, PermFile)>> ELSE <<>>)
               \o (IF permD # 0 THEN <<Node(NameD, permD)>> ELSE <<>>)
               \o <<Node(DotDot, PermDir), Node(Dot, PermDir)>>]

\* a directory the server lists nothing for
EmptyListing == [ok |-> TRUE, names |-> <<>>]

\* a directory the server refuses to open
NoListing == [ok |-> FALSE, names |-> <<>>]

Listings(k) ==
    {Listing(hasF, permD) : hasF \in BOOLEAN, permD \in {0, PermDir, PermFile, PermLink}}
    \cup (IF k = 0 THEN {} ELSE {EmptyListing, NoListing})

\* the remote trees: a listing for "/s", "/s/d", "/s/d/d", ...
Trees ==
    {[p \in {DirPath(k) : k \in 0..MaxDepth} |->
        c[CHOOSE k \in 0..MaxDepth : DirPath(k) = p]] :
            c \in {c \in [0..MaxDepth -> UNION {Listings(k) : k \in 0..MaxDepth}] :
                     \A k \in 0..MaxDepth : c[k] \in Listings(k)}}

\* what Ls(path) returns against the tree fs: the sorted listing, or the
\* error of the status that answers OpenDir
LsOf(fs, path) ==
    IF path \in DOMAIN fs /\ fs[path].ok
    THEN [names |-> CHOOSE t \in SortSlice(fs[path].names) : TRUE, err |-> NoErr]
    ELSE [names |-> <<>>, err |-> Errorf("error: %s", "No such file")]

\* an entry that is left without children
setChildrenNone(files, i, childFiles) == files

\* files[i].Children = childFiles
setChildren(files, i, childFiles) ==
    [files EXCEPT ![i] = [@ EXCEPT !.Children = childFiles]]

\* Session.find(path, parent): (files, err)
RECURSIVE find(_, _, _)
find(fs, path, parent) ==
    LET full == IF parent # <<>> THEN SprintfPath(parent, path) ELSE path
        ls == LsOf(fs, full)
        RECURSIVE loop(_, _)
        loop(files, i) ==
            IF i > Len(files) THEN [files |-> files, err |-> NoErr]
            ELSE IF files[i].Filename = Dot \/ files[i].Filename = DotDot
            THEN loop(files, i + 1)
            ELSE IF IsDir(files[i].Attrs.Permissions)
            THEN LET r == find(fs, files[i].Filename, full)
                 IN  IF r.err # NoErr THEN [files |-> <<>>, err |-> r.err]
                     ELSE loop(setChildren(files, i, r.files), i + 1)
            ELSE loop(files, i + 1)
    IN  IF ls.err # NoErr THEN [files |-> <<>>, err |-> ls.err]
        ELSE loop(ls.names, 1)

\* Session.Find(path)
Find(fs, path) == find(fs, path, <<>>)

\* a call of Find on a tree
CallFind ==
    /\ arg.fn = "Find"
    /\ ~out.done
    /\ out' = [done |-> TRUE] @@ Find(arg.fs, arg.path)
    /\ UNCHANGED <<arg, sessionVars>>

----------------------------------------------------------------------------
(* UnseenFileVisitor *)

\* repeated separators become one
RECURSIVE Squeeze(_)
Squeeze(p) ==
    IF Len(p) <= 1 THEN p
    ELSE IF p[Len(p)] = 47 /\ p[Len(p) - 1] = 47
    THEN Squeeze(SubSeq(p, 1, Len(p) - 1))
    ELSE Squeeze(SubSeq(p, 1, Len(p) - 1)) \o <<p[Len(p)]>>

\* filepath.Clean, for paths without "." and ".." elements: repeated
\* separators become one and a trailing separator is dropped
Clean(p) ==
    LET q == Squeeze(p)
    IN  IF q = <<>> THEN Dot
        ELSE IF Len(q) > 1 /\ q[Len(q)] = 47 THEN SubSeq(q, 1, Len(q) - 1)
        ELSE q

\* filepath.Join(dir, name): the non-empty elements joined by the separator,
\* then cleaned
Join(dir, name) ==
    IF dir = <<>> /\ name = <<>> THEN <<>>
    ELSE IF dir = <<>> THEN Clean(name)
    ELSE IF name = <<>> THEN Clean(dir)
    ELSE Clean(dir \o Slash \o name)

\* an entry as Walk shows it to the visitor
Visited(path, name, size) ==
    [Path |-> path, Filename |-> name, Attrs |-> [Size |-> size]]

\* NewUnseenFileVisitor(seen, exclude)
NewUnseenFileVisitor(seen, exclude) ==
    [seen |-> seen, exclude |-> exclude, found |-> <<>>]

\* a visitor that rejects every path of the seen map, whatever its size
seenSameSizeAny(u, fn, file) == fn \in DOMAIN u.seen

\* the path is in the seen map with the size of the entry
seenSameSize(u, fn, file) ==
    fn \in DOMAIN u.seen /\ u.seen[fn].Attrs.Size = file.Attrs.Size

\* UnseenFileVisitor.Visit(file): the visitor after the call and the result
Visit(u, file) ==
    LET fn == Join(file.Path, file.Filename)
    IN  IF \E k \in DOMAIN u.exclude : fn = u.exclude[k]
        THEN [u |-> u, ret |-> FALSE]
        ELSE IF seenSameSize(u, fn, file)
        THEN [u |-> u, ret |-> FALSE]
        ELSE [u |-> [u EXCEPT !.found = Append(@, file)], ret |-> TRUE]

\* UnseenFileVisitor.Files()
Files_(u) == u.found

\* the entries that may be shown to a visitor, the exclusion lists and the
\* seen maps it may be made with
VisitEntries ==
    {Visited(path, name, size) :
        path \in {RootPath, RootPath \o Slash, DirPath(1)},
        name \in {NameF, NameD}, size \in {1, 2}}

ExcludeLists == {<<>>, <<SprintfPath(RootPath, NameD)>>,
                 <<SprintfPath(DirPath(1), NameF), SprintfPath(RootPath, NameD)>>}

SeenMaps ==
    {[p \in {} |-> Visited(<<>>, <<>>, 0)],
     [p \in {SprintfPath(RootPath, NameF)} |-> Visited(<<>>, <<>>, 1)],
     [p \in {SprintfPath(RootPath, NameF), SprintfPath(DirPath(1), NameF)} |->
        Visited(<<>>, <<>>, IF p = SprintfPath(RootPath, NameF) THEN 2 ELSE 1)]}

VisitRuns == UNION {[1..n -> VisitEntries] : n \in 0..MaxVisits}

\* the next entry of the run is shown to the visitor
CallVisit ==
    /\ arg.fn = "Visit"
    /\ ~out.done
    /\ LET n == Len(out.rets) + 1
           r == Visit(out.u, arg.files[n])
       IN  /\ n <= Len(arg.files)
           /\ out' = [out EXCEPT !.u = r.u, !.rets = Append(@, r.ret)]
    /\ UNCHANGED <<arg, sessionVars>>

\* Files() is called after the last entry
CallFiles ==
    /\ arg.fn = "Visit"
    /\ ~out.done
    /\ Len(out.rets) = Len(arg.files)
    /\ out' = [out EXCEPT !.done = TRUE, !.files = Files_(out.u)]
    /\ UNCHANGED <<arg, sessionVars>>

----------------------------------------------------------------------------
(* Session.Walk, as the specification describes it: a depth-first traversal
   of Find's tree that shows every entry other than "." and ".." to the
   visitor once, a directory before its children. *)

\* the names of the tree of the tests: "/share", "dir", "dir2", "file1.txt",
\* "file2.txt", "file3.txt"
SharePath == <<47, 115, 104, 97, 114, 101>>
NameDir == <<100, 105, 114>>
NameDir2 == <<100, 105, 114, 50>>
NameFile1 == <<102, 105, 108, 101, 49, 46, 116, 120, 116>>
NameFile2 == <<102, 105, 108, 101, 50, 46, 116, 120, 116>>
NameFile3 == <<102, 105, 108, 101, 51, 46, 116, 120, 116>>

\* an entry with its size
SizedNode(name, perm, size) ==
    [Filename |-> name, Attrs |-> [Permissions |-> perm, Size |-> size],
     Children |-> <<>>]

\* the listing of a directory: its entries, then ".." and "."
DirListing(entries) ==
    [ok |-> TRUE,
     names |-> entries \o <<SizedNode(DotDot, PermDir, 0), SizedNode(Dot, PermDir, 0)>>]

\* /share = {file1.txt, dir = {file2.txt, dir2 = {file3.txt}}} with files of
\* the sizes s1, s2, s3
ShareTree(s1, s2, s3) ==
    LET dir == SprintfPath(SharePath, NameDir)
        dir2 == SprintfPath(dir, NameDir2)
    IN  [p \in {SharePath, dir, dir2} |->
            IF p = SharePath
            THEN DirListing(<<SizedNode(NameFile1, PermFile, s1),
                              SizedNode(NameDir, PermDir, 0)>>)
            ELSE IF p = dir
            THEN DirListing(<<SizedNode(NameFile2, PermFile, s2),
                              SizedNode(NameDir2, PermDir, 0)>>)
            ELSE DirListing(<<SizedNode(NameFile3, PermFile, s3)>>)]

\* the seen map that holds file1.txt with size a and file2.txt with size b
\* (0: the file is not in the map)
SeenMap(a, b) ==
    LET f1 == SprintfPath(SharePath, NameFile1)
        f2 == SprintfPath(SprintfPath(SharePath, NameDir), NameFile2)
    IN  [p \in (IF a = 0 THEN {} ELSE {f1}) \cup (IF b = 0 THEN {} ELSE {f2}) |->
            Visited(<<>>, <<>>, IF p = f1 THEN a ELSE b)]

\* the entries of files, found in the directory path, are shown to the
\* visitor u in order, each directory followed by its children
RECURSIVE visitAll(_, _, _, _)
visitAll(files, i, path, u) ==
    IF i > Len(files) THEN u
    ELSE IF files[i].Filename = Dot \/ files[i].Filename = DotDot
    THEN visitAll(files, i + 1, path, u)
    ELSE LET entry == [Path |-> path, Filename |-> files[i].Filename,
                       Attrs |-> files[i].Attrs]
             v == Visit(u, entry).u
             w == visitAll(files[i].Children, 1, Join(path, files[i].Filename), v)
         IN  visitAll(files, i + 1, path, w)

\* Session.Walk(path, visitor): the visitor after the walk, and the error
Walk(fs, path, u) ==
    LET r == Find(fs, path)
    IN  IF r.err # NoErr THEN [u |-> u, err |-> r.err]
        ELSE [u |-> visitAll(r.files, 1, path, u), err |-> NoErr]

\* a call of Walk, then of Files()
CallWalk ==
    /\ arg.fn = "Walk"
    /\ ~out.done
    /\ LET r == Walk(arg.fs, arg.path, arg.u)
       IN  out' = [done |-> TRUE, err |-> r.err, files |-> Files_(r.u)]
    /\ UNCHANGED <<arg, sessionVars>>

----------------------------------------------------------------------------
(* NameResp.UnmarshalBinary called on its own. *)

\* a call of UnmarshalBinary on a new NameResp
CallUnmarshal ==
    /\ arg.fn = "NameResp"
    /\ ~out.done
    /\ out' = [done |-> TRUE, res |-> NameRespUnmarshalBinary(arg.b)]
    /\ UNCHANGED <<arg, sessionVars>>

----------------------------------------------------------------------------
(* Framing: writer.write and reader.read on the bytes of the stream. *)

lengthOfPayload(payload) == Len(payload)

\* l := uint32(len(payload)) + 1
lengthOf(payload) == Len(payload) + 1

\* writer.write, from the payload and the type tag on: the bytes of buf, which
\* go to the stream in one call of Write
writerWrite(t, payload) ==
    WriteUint32(lengthOf(payload)) \o WriteUint8(t) \o payload

\* reader.read up to p.message(): the packet read from the stream r and the
\* rest of r; err: the stream ends before the packet does, or make() fails on
\* the length 0
readerRead(r) ==
    IF Len(r) < 5 THEN [err |-> TRUE, rest |-> <<>>]
    ELSE LET length == r[1] * 16777216 + Low24(SubSeq(r, 1, 4))
         IN  IF length = 0 \/ Len(r) < 4 + length
             THEN [err |-> TRUE, rest |-> <<>>]
             ELSE [err |-> FALSE, Length |-> length, Type |-> r[5],
                   Payload |-> SubSeq(r, 6, 4 + length),
                   rest |-> SubSeq(r, 5 + length, Len(r))]

\* the type tags of the requests writer.write frames
RequestTypes ==
    {SSH_FXP_INIT, SSH_FXP_OPEN, SSH_FXP_CLOSE, SSH_FXP_READ, SSH_FXP_OPENDIR,
     SSH_FXP_READDIR}

\* the payloads of up to n bytes, of the bytes 0 and 255
RECURSIVE Payloads(_)
Payloads(n) ==
    IF n = 0 THEN {<<>>}
    ELSE Payloads(n - 1)
         \cup {Append(q, c) : q \in {x \in Payloads(n - 1) : Len(x) = n - 1},
                              c \in {0, 255}}

\* a call of writer.write with the next message: one Write on the stream
CallWriterWrite ==
    /\ arg.fn = "frame"
    /\ Len(out.writes) < Len(arg.msgs)
    /\ LET m == arg.msgs[Len(out.writes) + 1]
           buf == writerWrite(m.Type, m.Payload)
       IN  out' = [out EXCEPT !.writes = Append(@, buf), !.stream = @ \o buf]
    /\ UNCHANGED <<arg, sessionVars>>

\* a call of reader.read on the stream, which holds a packet
CallReaderRead ==
    /\ arg.fn = "frame"
    /\ out.stream # <<>>
    /\ LET p == readerRead(out.stream)
       IN  out' = [out EXCEPT !.read = Append(@, p), !.stream = p.rest,
                              !.done = Len(out.read) + 1 = Len(arg.msgs)]
    /\ UNCHANGED <<arg, sessionVars>>

----------------------------------------------------------------------------
(* MarshalBinary of the requests that carry a string. A string is the
   sequence of its bytes. *)

\* a continuation byte of UTF-8
IsCont(c) == c >= 128 /\ c <= 191

\* the number of bytes the first rune of the non-empty string str takes when
\* the string is converted to []rune; a byte that starts no well-formed
\* sequence is one rune (the replacement character) of its own
RuneLen(str) ==
    LET c == str[1]
        n == IF c >= 194 /\ c <= 223 THEN 2
             ELSE IF c >= 224 /\ c <= 239 THEN 3
             ELSE IF c >= 240 /\ c <= 244 THEN 4
             ELSE 1
    IN  IF Len(str) >= n /\ \A k \in 2..n : IsCont(str[k]) THEN n ELSE 1

\* len([]rune(str))
RECURSIVE RuneCount(_)
RuneCount(str) ==
    IF str = <<>> THEN 0
    ELSE 1 + RuneCount(SubSeq(str, RuneLen(str) + 1, Len(str)))

\* OpenDirReq.MarshalBinary
OpenDirReqMarshalBinary(r) ==
    WriteUint32(r.Id) \o WriteUint32(RuneCount(r.Path)) \o r.Path

\* CloseReq.MarshalBinary
CloseReqMarshalBinary(r) == WriteUint32(r.Id) \o WriteString(r.Handle)

\* the characters '/', 'a', U+00E9 and U+20AC in UTF-8
PathChars == {<<47>>, <<97>>, <<195, 169>>, <<226, 130, 172>>}

\* the strings of up to n of these characters
RECURSIVE PathsOf(_)
PathsOf(n) ==
    IF n = 0 THEN {<<>>}
    ELSE PathsOf(n - 1) \cup {q \o c : q \in PathsOf(n - 1), c \in PathChars}

\* a call of MarshalBinary on an OpenDirReq, and on a CloseReq that carries
\* the same id and the same string
CallMarshal ==
    /\ arg.fn = "OpenDirReq"
    /\ ~out.done
    /\ out' = [done |-> TRUE,
               b |-> OpenDirReqMarshalBinary([Id |-> arg.id, Path |-> arg.path]),
               close |-> CloseReqMarshalBinary([Id |-> arg.id, Handle |-> arg.path])]
    /\ UNCHANGED <<arg, sessionVars>>

----------------------------------------------------------------------------
(* Specifications. *)

Handler == HandlerSelect \/ HandlerRead \/ HandlerLock

SessionInit == InitWrite \/ InitGetChan \/ InitRecv \/ InitReturn

Call(i) ==
    \/ Ls(i) \/ Get(i) \/ NextSeqReturn(i) \/ CallGetChan(i) \/ WriteEnter(i)
    \/ LsOpenDir(i) \/ LsRecvOpenDir(i) \/ LsReadDir(i) \/ LsRecvReadDir(i)
    \/ GetOpen(i) \/ GetRecvOpen(i) \/ GetRead(i) \/ GetRecvRead(i)
    \/ CloseReqWrite(i) \/ CloseReqRecv(i) \/ CallReturn(i)

Next ==
    \/ Handler
    \/ ServerRespond
    \/ SessionInit
    \/ \E i \in Callers : Call(i)

\* a session in use, never closed, with two concurrent callers
Spec == Init /\ [][Next]_vars

\* a session in use with one caller and a server that lists directories
\* and serves file data
InitData == InitWith(RemoteData, 1)

SpecData == InitData /\ [][Next]_vars

\* a session whose handshake the server may answer in any way, then used
\* by one caller
InitHello == InitWith(RemoteHello, 1)

SpecHello == InitHello /\ [][Next]_vars

\* a session with one caller and a server that holds a file and serves
\* reads of it
InitFile == \E f \in Files : InitWith(RemoteFile(f), 1)

SpecFile == InitFile /\ [][Next]_vars

\* a session with two concurrent callers and a server that may send a
\* packet the reader cannot decode
InitJunk == InitWith(RemoteJunk, Cardinality(Callers))

SpecJunk == InitJunk /\ [][Next]_vars

\* a session with two concurrent callers and a server that may send a
\* response for an id nobody waits on
InitStray == InitWith(RemoteStray, Cardinality(Callers))

SpecStray == InitStray /\ [][Next]_vars

\* a session with one caller and a server whose name responses may carry
\* extension pairs; nothing runs once the process has panicked
InitExt == InitWith(RemoteExt, 1)

NextExt == rpc # "panic" /\ Next

SpecExt == InitExt /\ [][NextExt]_vars

\* a session whose stream the remote side may close at any moment
InitHangup == InitWith(RemoteSmall, 1)

NextHangup == Next \/ ServerHangup

SpecHangup == InitHangup /\ [][NextHangup]_vars

\* Find called on each of the remote trees
InitFind == \E fs \in Trees : InitPure([fn |-> "Find", fs |-> fs, path |-> RootPath])

SpecFind == InitFind /\ [][CallFind]_vars

\* a visitor made with a seen map and an exclusion list, shown a run of
\* entries
InitVisit ==
    \E seen \in SeenMaps, exclude \in ExcludeLists, files \in VisitRuns :
        /\ arg = [fn |-> "Visit", files |-> files]
        /\ out = [done |-> FALSE, u |-> NewUnseenFileVisitor(seen, exclude),
                  rets |-> <<>>, files |-> <<>>]
        /\ NewSessionState(RemoteSmall, 0)

NextVisit == CallVisit \/ CallFiles

SpecVisit == InitVisit /\ [][NextVisit]_vars

\* Walk over the tree of the tests, with files of sizes 1 and 2, visitors
\* with any seen map of file1.txt and file2.txt, with and without an exclusion
InitWalk ==
    \E s1, s2, s3 \in {1, 2}, a, b \in {0, 1, 2},
       exclude \in {<<>>, <<SprintfPath(SharePath, NameFile1)>>} :
        InitPure([fn |-> "Walk", fs |-> ShareTree(s1, s2, s3), path |-> SharePath,
                  u |-> NewUnseenFileVisitor(SeenMap(a, b), exclude)])

SpecWalk == InitWalk /\ [][CallWalk]_vars

\* String of every mode up to MaxMode
InitString == \E m \in 0..MaxMode : InitPure([fn |-> "String", m |-> m])

SpecString == InitString /\ [][CallString]_vars

\* the decoding of every name response of up to MaxNames entries
InitUnmarshal ==
    \E n \in 0..MaxNames :
        \E entries \in WireLists(n) :
            InitPure([fn |-> "NameResp", entries |-> entries,
                      b |-> NameRespBytes(3, entries)])

SpecUnmarshal == InitUnmarshal /\ [][CallUnmarshal]_vars

\* two messages, each a request type and a payload, are written to the
\* stream and read from it
InitFrame ==
    \E t1, t2 \in RequestTypes, p1, p2 \in Payloads(MaxPayload) :
        /\ arg = [fn |-> "frame",
                  msgs |-> <<[Type |-> t1, Payload |-> p1], [Type |-> t2, Payload |-> p2]>>]
        /\ out = [done |-> FALSE, writes |-> <<>>, stream |-> <<>>, read |-> <<>>]
        /\ NewSessionState(RemoteSmall, 0)

NextFrame == CallWriterWrite \/ CallReaderRead

SpecFrame == InitFrame /\ [][NextFrame]_vars

\* an OpenDirReq with an id and a path is marshaled
InitMarshal ==
    \E id \in 1..MaxOps, path \in PathsOf(MaxPath) :
        InitPure([fn |-> "OpenDirReq", id |-> id, path |-> path])

SpecMarshal == InitMarshal /\ [][CallMarshal]_vars

\* a session that is closed while it is in use
InitClose == InitWith(RemoteSmall, 1)

NextClose == Next \/ CloseCancel \/ CloseSession

\* every goroutine that can take a step eventually takes one, the server
\* answers every request it can, and a Close that has begun completes
Fairness ==
    /\ WF_vars(Handler)
    /\ WF_vars(SessionInit)
    /\ WF_vars(ServerRespond)
    /\ WF_vars(CloseSession)
    /\ \A i \in Callers : WF_vars(Call(i))

SpecClose == InitClose /\ [][NextClose]_vars /\ Fairness

\* a session that is closed while it is in use, with a server that may send
\* a response for an id nobody waits on
InitCloseStray == InitWith(RemoteStray, 1)

SpecCloseStray == InitCloseStray /\ [][NextClose]_vars /\ Fairness

----------------------------------------------------------------------------
(* What a call's log says. *)

\* positions of the requests of type T the call wrote
WroteAt(o, T) == {k \in DOMAIN o.log : o.log[k].d = "w" /\ o.log[k].m.T = T}

\* positions of the messages of type T the call received
GotAt(o, T) == {k \in DOMAIN o.log : o.log[k].d = "r" /\ o.log[k].m.T = T}

\* the call has executed its return statement
Returned(o) == o.pc \in {"ret", "done"}

\* the call's first request was answered with a handle
Opened(o) ==
    /\ Len(o.log) >= 2
    /\ o.log[2].d = "r"
    /\ o.log[2].m.T = "HandleResp"

\* the entries of the NameResponses the call received, in order of arrival
NamesReceived(o) ==
    LET RECURSIVE from(_)
        from(k) ==
            IF k > Len(o.log) THEN <<>>
            ELSE IF o.log[k].d = "r" /\ o.log[k].m.T = "NameResp"
            THEN o.log[k].m.Names \o from(k + 1)
            ELSE from(k + 1)
    IN  from(1)

\* the call wrote exactly one CloseRequest, carrying the handle it was given
ClosesOnce(o) ==
    /\ Cardinality(WroteAt(o, "CloseReq")) = 1
    /\ \A k \in WroteAt(o, "CloseReq") : o.log[k].m.Handle = o.log[2].m.Handle

\* positions at which the call received the EOF status for a ReadDir request
EofAt(o) ==
    {k \in GotAt(o, "StatusResp") :
        o.log[k].m.ErrorCode = SSH_FX_EOF /\ o.log[k - 1].m.T = "ReadDirReq"}

\* the call holds a request id and has not finished
InFlight(o) == o.pc \notin {"idle", "nextSeq", "done"}

----------------------------------------------------------------------------
(* Claims. *)

\* C1: every message a caller receives on its channel carries the caller's
\* own request id, for any number of concurrent callers and any order of
\* the server's responses; init, on slot 0, is never handed a message that
\* carries another id.
C1_Demux ==
    /\ \A i \in Callers : \A k \in DOMAIN op[i].log :
          op[i].log[k].d = "r" =>
              /\ IsSequence(op[i].log[k].m)
              /\ op[i].log[k].m.Id = op[i].id
    /\ (ipc \in {"ret", "done"} /\ IsSequence(initMsg)) => initMsg.Id = 0

\* two callers with different ids are both in flight and each has received
\* two responses, those of caller 2 before caller 1 has finished
C1_Witness ==
    /\ op[1].id # op[2].id
    /\ InFlight(op[1]) /\ InFlight(op[2])
    /\ Cardinality({k \in DOMAIN op[1].log : op[1].log[k].d = "r"}) = 2
    /\ Cardinality({k \in DOMAIN op[2].log : op[2].log[k].d = "r"}) = 2

\* C2: every call that was blocked waiting for a response when Close was
\* called eventually returns.
C2_Cancellation ==
    \A i \in Callers : (i \in waiting) ~> Returned(op[i])

\* C3: every Ls whose OpenDir was answered with a handle has written exactly
\* one CloseRequest carrying that handle when it returns, also when a
\* ReadDir step failed.
C3_LsCloses ==
    \A i \in Callers :
        (op[i].kind = "Ls" /\ Returned(op[i]) /\ Opened(op[i])) => ClosesOnce(op[i])

\* C4: every Get whose Open was answered with a handle has written exactly
\* one CloseRequest carrying that handle when it returns, on every exit
\* path; a Get whose Open failed has written none.
C4_GetCloses ==
    \A i \in Callers :
        (op[i].kind = "Get" /\ Returned(op[i])) =>
            IF Opened(op[i]) THEN ClosesOnce(op[i])
            ELSE WroteAt(op[i], "CloseReq") = {}

\* a Get that was given a handle, failed to write to its sink, and has
\* returned the error after one CloseRequest
C4_Witness ==
    \E i \in Callers :
        /\ op[i].kind = "Get" /\ op[i].pc = "done"
        /\ Opened(op[i])
        /\ op[i].err = ErrSink
        /\ ClosesOnce(op[i])

\* C5: calls of nextSeq that are in flight together hold different ids, and
\* the first id handed out is 1.
C5_DistinctIds ==
    /\ \A i, j \in Callers :
          (i # j /\ InFlight(op[i]) /\ InFlight(op[j])) => op[i].id # op[j].id
    /\ budget = MaxOps - 1 => \A i \in Callers : InFlight(op[i]) => op[i].id = 1

\* C6: init returns without error exactly when the message delivered on
\* slot 0 is a version acknowledgment with version 3.
C6_Handshake ==
    ipc \in {"ret", "done"} =>
        (initErr = NoErr <=> (initMsg.T = "VersionResp" /\ initMsg.Version = 3))

\* NewSession has returned an error for a version acknowledgment of version 2
C6_Witness ==
    /\ ipc = "done"
    /\ initMsg.T = "VersionResp" /\ initMsg.Version = 2
    /\ initErr # NoErr

\* C7: Init is the first message written, and a request with an id >= 1 is
\* written only on a session whose handshake has succeeded.
C7_HandshakeFirst ==
    /\ first \in {"none", "InitReq"}
    /\ \A i \in Callers :
          op[i].log # <<>> => (ipc = "done" /\ initErr = NoErr)

\* C8: Ls keeps what it has received while it loops; it returns success
\* exactly when a ReadDir was answered with the EOF status, every
\* NameResponse before that was followed by another ReadDirRequest, and the
\* returned list holds exactly the entries of the NameResponses it received.
C8_LsAccumulates ==
    \A i \in Callers :
        op[i].kind = "Ls" =>
            /\ op[i].names = NamesReceived(op[i])
            /\ Returned(op[i]) =>
                  /\ op[i].res = "ok" <=> EofAt(op[i]) # {}
                  /\ op[i].res = "ok" => SeqBag(op[i].ret) = SeqBag(NamesReceived(op[i]))
                  /\ \A k \in GotAt(op[i], "NameResp") :
                        /\ k < Len(op[i].log)
                        /\ op[i].log[k + 1].d = "w"
                        /\ op[i].log[k + 1].m.T = "ReadDirReq"

\* a successful Ls that received two NameResponses and returns two entries
C8_Witness ==
    \E i \in Callers :
        /\ op[i].kind = "Ls" /\ op[i].pc = "done" /\ op[i].res = "ok"
        /\ Cardinality(GotAt(op[i], "NameResp")) = 2
        /\ Len(op[i].ret) = 2

\* C9: the list a successful Ls returns is in non-decreasing order of
\* filename.
C9_Sorted ==
    \A i \in Callers :
        (op[i].kind = "Ls" /\ Returned(op[i]) /\ op[i].res = "ok") =>
            \A j, k \in DOMAIN op[i].ret :
                j < k => ~StrLess(op[i].ret[k].Filename, op[i].ret[j].Filename)

\* a successful Ls whose entries came in two NameResponses, the greater
\* filename first
C9_Witness ==
    \E i \in Callers :
        /\ op[i].kind = "Ls" /\ op[i].pc = "done" /\ op[i].res = "ok"
        /\ Cardinality(GotAt(op[i], "NameResp")) = 2
        /\ Len(op[i].ret) = 2
        /\ StrLess(op[i].names[2].Filename, op[i].names[1].Filename)
        /\ op[i].ret # op[i].names

\* C10: a status other than OK and EOF in answer to OpenDir, ReadDir, Open
\* or Read makes the call return an error that carries the status code and
\* the server's message, and the request is not written again.
C10_StatusError ==
    \A i \in Callers : \A k \in GotAt(op[i], "StatusResp") :
        LET st == op[i].log[k].m
            rq == op[i].log[k - 1].m
        IN  (/\ rq.T \in {"OpenDirReq", "ReadDirReq", "OpenReq", "ReadReq"}
             /\ st.ErrorCode \notin {SSH_FX_OK, SSH_FX_EOF}) =>
                /\ \A j \in DOMAIN op[i].log :
                      (j > k /\ op[i].log[j].d = "w") => op[i].log[j].m # rq
                /\ Returned(op[i]) =>
                      /\ op[i].res = "err"
                      /\ st.ErrorMessage \in Range(op[i].err)
                      /\ Itoa(st.ErrorCode) \in Range(op[i].err)

\* C11: a successful Get from a server that answers each read with 1 to len
\* bytes of the file from the requested offset, and with EOF at or past the
\* end, has written to the sink exactly the bytes of the file, in order.
C11_GetExact ==
    \A i \in Callers :
        (op[i].kind = "Get" /\ Returned(op[i]) /\ op[i].res = "ok") =>
            op[i].sink = remote.file

\* C12: at most one call is inside the stream's Write at any instant.
C12_WriteExclusion ==
    Cardinality({i \in Callers : op[i].inWrite}) <= 1

\* C13: a packet the reader fails to decode does not stop the reader: the
\* handler is never left, with the mutex held, sending on a nil channel,
\* from which no goroutine can ever receive.
C13_ReaderGoesOn ==
    ~(rpc = "send" /\ rch = NilChan)

\* C14: once read() has returned io.EOF the handler's loop has ended: the
\* handler does not go on to read again.
C14_ReaderStops ==
    [][~(rmsg = NilEOF /\ rpc = "select" /\ rpc' = "read")]_vars

\* C15: once init or a call has returned, rChan holds no entry for the id it
\* used; when nothing is running rChan is empty.
C15_TableClean ==
    /\ ipc = "done" => 0 \notin DOMAIN rChan
    /\ \A i \in Callers : op[i].pc = "done" => op[i].id \notin DOMAIN rChan
    /\ (ipc = "done" /\ \A i \in Callers : op[i].pc \in {"idle", "done"}) =>
          DOMAIN rChan = {}

\* the entries files are the listing of path in fs; the sub-directories among
\* them, "." and ".." apart, hold the entries of path/name, and every other
\* entry has no children
RECURSIVE TreeOk(_, _, _)
TreeOk(fs, files, path) ==
    /\ path \in DOMAIN fs
    /\ fs[path].ok
    /\ Len(files) = Len(fs[path].names)
    /\ {[e EXCEPT !.Children = <<>>] : e \in Range(files)} = Range(fs[path].names)
    /\ \A k \in DOMAIN files :
          IF /\ files[k].Filename \notin {Dot, DotDot}
             /\ (files[k].Attrs.Permissions \div 4096) % 16 = 4
          THEN TreeOk(fs, files[k].Children, path \o Slash \o files[k].Filename)
          ELSE files[k].Children = <<>>

\* C16: in the tree of a successful Find, an entry that is a directory other
\* than "." and ".." holds exactly the listing of parent/name as children,
\* and every other entry has none.
C16_FindTree ==
    (arg.fn = "Find" /\ out.done /\ out.err = NoErr) =>
        TreeOk(arg.fs, out.files, arg.path)

\* a successful Find of a tree in which "/s/d" and "/s/d/d" are directories
\* next to a file, and "/s/d/d" lists entries
C16_Witness ==
    /\ arg.fn = "Find" /\ out.done /\ out.err = NoErr
    /\ \E k \in DOMAIN out.files :
          /\ out.files[k].Filename = NameD
          /\ \E j \in DOMAIN out.files[k].Children :
                /\ out.files[k].Children[j].Filename = NameD
                /\ Len(out.files[k].Children[j].Children) > 2
    /\ \E k \in DOMAIN out.files : out.files[k].Filename = NameF

\* the full path of an entry: its directory and its name, one separator
\* between them
FullPath(file) ==
    LET dir == IF file.Path # <<>> /\ file.Path[Len(file.Path)] = 47
               THEN SubSeq(file.Path, 1, Len(file.Path) - 1) ELSE file.Path
    IN  dir \o Slash \o file.Filename

\* what Visit is to answer for an entry
Accepts(u, file) ==
    /\ FullPath(file) \notin Range(u.exclude)
    /\ ~(/\ FullPath(file) \in DOMAIN u.seen
         /\ u.seen[FullPath(file)].Attrs.Size = file.Attrs.Size)

\* the entries of s that Visit is to accept, in order
RECURSIVE Accepted(_, _)
Accepted(u, s) ==
    IF s = <<>> THEN <<>>
    ELSE (IF Accepts(u, Head(s)) THEN <<Head(s)>> ELSE <<>>) \o Accepted(u, Tail(s))

\* C17: Visit answers false for an excluded path and for a path seen with the
\* same size, true otherwise; Files() is the entries it answered true for, in
\* visit order.
C17_Visit ==
    arg.fn = "Visit" =>
        /\ \A k \in DOMAIN out.rets : out.rets[k] = Accepts(out.u, arg.files[k])
        /\ out.u.found = Accepted(out.u, SubSeq(arg.files, 1, Len(out.rets)))
        /\ out.done => out.files = Accepted(out.u, arg.files)

\* a visitor that rejected a seen entry of the same size, accepted an entry
\* seen with another size, and returned that one from Files()
C17_Witness ==
    /\ arg.fn = "Visit" /\ out.done
    /\ out.rets = <<FALSE, TRUE>>
    /\ FullPath(arg.files[1]) \in DOMAIN out.u.seen
    /\ FullPath(arg.files[2]) \in DOMAIN out.u.seen
    /\ FullPath(arg.files[1]) \notin Range(out.u.exclude)
    /\ out.files = <<arg.files[2]>>

\* C18: walking /share = {file1.txt, dir = {file2.txt, dir2 = {file3.txt}}},
\* all files of size 1, with the seen map {/share/file1.txt: 1,
\* /share/dir/file2.txt: 1} and no exclusions leaves exactly one entry in
\* Files(): file3.txt with path /share/dir/dir2.
C18_WalkUnseen ==
    (/\ arg.fn = "Walk" /\ out.done
     /\ arg.fs = ShareTree(1, 1, 1)
     /\ arg.u = NewUnseenFileVisitor(SeenMap(1, 1), <<>>)) =>
        /\ out.err = NoErr
        /\ Len(out.files) = 1
        /\ out.files[1].Filename = NameFile3
        /\ out.files[1].Path = SprintfPath(SprintfPath(SharePath, NameDir), NameDir2)

\* bit k of the number m
Bit(m, k) == (m \div (2 ^ k)) % 2

\* C19: String() has 10 characters; the first is 'd' when the type field is
\* 0x4000 and '-' when it is 0x8000; character i+1 is the i-th letter of
\* "rwxrwxrwx" when permission bit 8-i is set and '-' otherwise; a directory
\* with permissions 0755 gives "drwxr-xr-x".
C19_ModeString ==
    (arg.fn = "String" /\ out.done) =>
        LET m == arg.m
            type == (m \div 4096) % 16
        IN  /\ Len(out.s) = 10
            /\ type = 4 => out.s[1] = 100
            /\ type = 8 => out.s[1] = 45
            /\ \A i \in 0..8 :
                out.s[i + 2] = IF Bit(m, 8 - i) = 1 THEN Rwx[i + 1] ELSE 45
            /\ m = 16384 + 493 =>
                out.s = <<100, 114, 119, 120, 114, 45, 120, 114, 45, 120>>

C19_Witness ==
    /\ arg.fn = "String" /\ out.done
    /\ arg.m = 16384 + 493
    /\ out.s = <<100, 114, 119, 120, 114, 45, 120, 114, 45, 120>>

\* the entry a decoder must make of the entry e of the wire: the attributes
\* of its flags, and zero for the others
Decoded(e) ==
    [Filename |-> e.Filename, Longname |-> e.Longname,
     Attrs |-> [Size |-> IF "SIZE" \in e.flags THEN e.Size ELSE Zero64,
                Uid |-> IF "UIDGID" \in e.flags THEN e.Uid ELSE Zero32,
                Gid |-> IF "UIDGID" \in e.flags THEN e.Gid ELSE Zero32,
                Permissions |-> IF "PERMISSIONS" \in e.flags THEN e.Permissions ELSE Zero32,
                Atime |-> IF "ACMODTIME" \in e.flags THEN e.Atime ELSE Zero32,
                Mtime |-> IF "ACMODTIME" \in e.flags THEN e.Mtime ELSE Zero32,
                ExtendedCount |-> Zero32,
                ExtendedType |-> <<>>, ExtendedData |-> <<>>]]

\* C20: decoding a NameResp whose entries carry any of the 2^5 combinations
\* of attribute flags (and no extension pairs) reads exactly the bytes of the
\* message: every entry has its filename, its longname and the attributes of
\* its flags, the attributes without flag are zero, and no byte is left.
C20_NameRespDecoding ==
    (/\ arg.fn = "NameResp" /\ out.done
     /\ \A k \in 1..Len(arg.entries) : arg.entries[k].ext = 0) =>
        /\ ~out.res.panic
        /\ out.res.b = <<>>
        /\ Len(out.res.r.Names) = Len(arg.entries)
        /\ \A k \in 1..Len(arg.entries) :
            out.res.r.Names[k] = Decoded(arg.entries[k])

C20_Witness ==
    /\ arg.fn = "NameResp" /\ out.done
    /\ Len(arg.entries) = 2
    /\ arg.entries[1].flags = {"UIDGID", "ACMODTIME"}
    /\ arg.entries[2].flags = AttrFlags /\ arg.entries[2].ext = 0
    /\ ~out.res.panic
    /\ out.res.r.Names[2].Attrs.Mtime = WriteUint32(38)
    /\ out.res.r.Names[1].Attrs.Size = Zero64

\* C21: a name response whose entry has an extended count above 0 fails only
\* the Ls that waits for it: the reader does not end with it and goes on to
\* route messages.
C21_ExtendedFailsLs ==
    rpc # "panic"

\* the status the call's CloseRequest was answered with is not OK
CloseRefused(o) ==
    /\ Len(o.log) >= 2
    /\ o.log[Len(o.log)].d = "r"
    /\ o.log[Len(o.log)].m.T = "StatusResp"
    /\ o.log[Len(o.log)].m.ErrorCode # SSH_FX_OK
    /\ o.log[Len(o.log) - 1].m.T = "CloseReq"

\* the message the call received before it wrote its CloseRequest
BeforeClose(o) == o.log[Len(o.log) - 2].m

\* C22: an Ls whose listing ended with EOF, and a Get whose reads ended with
\* EOF or OK and whose sink took every write, return success with their
\* result also when the CloseRequest is answered with a status that is
\* not OK.
C22_CloseStatusDropped ==
    \A i \in Callers :
        (Returned(op[i]) /\ CloseRefused(op[i])) =>
            /\ (op[i].kind = "Ls" /\ EofAt(op[i]) # {}) =>
                  /\ op[i].res = "ok" /\ op[i].err = NoErr
                  /\ SeqBag(op[i].ret) = SeqBag(NamesReceived(op[i]))
            /\ (/\ op[i].kind = "Get"
                /\ BeforeClose(op[i]).T = "StatusResp"
                /\ BeforeClose(op[i]).ErrorCode \in {SSH_FX_EOF, SSH_FX_OK}) =>
                  /\ op[i].err \in {NoErr, ErrSink}
                  /\ op[i].err = NoErr => op[i].res = "ok"

\* a call has returned success after its close was answered with the
\* Failure status: an Ls that returns an entry, or a Get that wrote data
C22_Witness ==
    \E i \in Callers :
        /\ op[i].pc = "done" /\ CloseRefused(op[i])
        /\ op[i].log[Len(op[i].log)].m.ErrorCode = SSH_FX_FAILURE
        /\ op[i].res = "ok"
        /\ \/ op[i].kind = "Ls" /\ Len(op[i].ret) = 1
           \/ op[i].kind = "Get" /\ op[i].sink # <<>>

\* the number the four bytes w are, most significant first
BigEndian(w) == ((w[1] * 256 + w[2]) * 256 + w[3]) * 256 + w[4]

\* C23: every Write of writer.write carries the 4 bytes of len(payload)+1,
\* most significant first, then the type tag, then the payload; reader.read
\* gets from the stream the packets that were written, one per call and in
\* order, each with its type tag and its payload of length-1 bytes, and
\* leaves in the stream exactly the packets not yet read.
C23_Framing ==
    arg.fn = "frame" =>
        /\ \A k \in DOMAIN out.writes :
            LET buf == out.writes[k]
                m == arg.msgs[k]
            IN  /\ Len(buf) = 5 + Len(m.Payload)
                /\ BigEndian(SubSeq(buf, 1, 4)) = Len(m.Payload) + 1
                /\ buf[5] = m.Type
                /\ SubSeq(buf, 6, Len(buf)) = m.Payload
        /\ \A k \in DOMAIN out.read :
            /\ ~out.read[k].err
            /\ out.read[k].Type = arg.msgs[k].Type
            /\ out.read[k].Payload = arg.msgs[k].Payload
            /\ out.read[k].Length = Len(arg.msgs[k].Payload) + 1
        /\ Len(out.stream) =
              (IF Len(out.read) < 1 /\ Len(out.writes) >= 1
               THEN Len(out.writes[1]) ELSE 0)
              + (IF Len(out.read) < 2 /\ Len(out.writes) >= 2
                 THEN Len(out.writes[2]) ELSE 0)

\* the first packet was read while the second was in the stream behind it,
\* then the second; their payloads differ in length
C23_Witness ==
    /\ arg.fn = "frame" /\ out.done
    /\ Len(arg.msgs[1].Payload) = 2 /\ arg.msgs[2].Payload = <<>>
    /\ arg.msgs[1].Type # arg.msgs[2].Type
    /\ out.read[1].rest # <<>>
    /\ out.read[2].Type = arg.msgs[2].Type
    /\ out.stream = <<>>

\* C24: the version acknowledgment reaches init whatever the interleaving:
\* the handler that has decoded it before init registered slot 0 is never
\* left sending it on a nil channel with the mutex held, while init waits
\* for that mutex in getChan(0).
C24_HandshakeDelivered ==
    ~(/\ rpc = "send" /\ rmsg.T = "VersionResp" /\ rmsg.Version = 3
      /\ rch = NilChan /\ rChanMtx
      /\ ipc = "getChan")

\* the handler is in its send of a message whose id no call has
HoldsUnclaimed ==
    /\ rpc = "send" /\ rChanMtx /\ IsSequence(rmsg)
    /\ \A i \in Callers : ~(InFlight(op[i]) /\ op[i].id = rmsg.Id)

\* C25: a response for an id whose caller is not there does not hold the
\* others up: while the handler holds it, no call with another id waits for
\* the table to register or unregister its slot, and no response for a call
\* that is waiting lies undelivered in the stream behind it.
C25_NoCrossBlocking ==
    HoldsUnclaimed =>
        \A j \in Callers :
            /\ op[j].pc \notin {"getChan", "ret"}
            /\ InFlight(op[j]) =>
                  \A k \in DOMAIN inbox :
                      ~("Id" \in DOMAIN inbox[k] /\ inbox[k].Id = op[j].id)

\* the call has written a request and has not received the response to it
Unanswered(o) == InFlight(o) /\ o.log # <<>> /\ o.log[Len(o.log)].d = "w"

\* C26: a call writes its next request only after it has received the
\* response to its previous one, so its requests and responses alternate,
\* and at every instant at most one request per id is unanswered.
C26_RequestThenResponse ==
    /\ \A i \in Callers :
          \A k \in DOMAIN op[i].log :
              op[i].log[k].d = (IF k % 2 = 1 THEN "w" ELSE "r")
    /\ \A i, j \in Callers :
          (i # j /\ Unanswered(op[i]) /\ Unanswered(op[j])) => op[i].id # op[j].id

\* the ReadRequests a call has written, in order
ReadReqs(o) == SelectSeq(o.log, LAMBDA e : e.d = "w" /\ e.m.T = "ReadReq")

\* the payloads of the DataResponses the first n entries of the log hold in
\* answer to a ReadRequest, one after the other
RECURSIVE DataGot(_, _)
DataGot(log, n) ==
    IF n < 2 THEN <<>>
    ELSE DataGot(log, n - 1)
         \o (IF log[n].d = "r" /\ log[n].m.T = "DataResp" /\ log[n - 1].m.T = "ReadReq"
             THEN log[n].m.Data ELSE <<>>)

\* C27: the k-th ReadRequest of a Get carries offset (k-1) * 261120 and
\* length 261120, whatever the number of bytes the DataResponses carried;
\* while the sink accepts what it is given, it holds the payloads of all the
\* DataResponses received, so each payload is in the sink before the next
\* ReadRequest is written.
C27_ReadOffsets ==
    \A i \in Callers :
        op[i].kind = "Get" =>
            /\ \A k \in DOMAIN ReadReqs(op[i]) :
                  /\ ReadReqs(op[i])[k].m.Offset = (k - 1) * 261120
                  /\ ReadReqs(op[i])[k].m.Len = 261120
            /\ op[i].err # ErrSink => op[i].sink = DataGot(op[i].log, Len(op[i].log))

\* a Get has written its third ReadRequest after DataResponses of 1 and of
\* 2 bytes, which are in the sink
C27_Witness ==
    \E i \in Callers :
        /\ op[i].kind = "Get" /\ op[i].pc = "recvRead"
        /\ Len(ReadReqs(op[i])) = 3
        /\ ReadReqs(op[i])[3].m.Offset = 522240
        /\ op[i].sink = <<97, 98, 99>>

\* positions at which the call received the OK status for a Read request
OkAt(o) ==
    {k \in GotAt(o, "StatusResp") :
        o.log[k].m.ErrorCode = SSH_FX_OK /\ o.log[k - 1].m.T = "ReadReq"}

\* C28: a Get whose ReadRequest is answered with the status OK writes no
\* further ReadRequest; its next and last request is the CloseRequest, and
\* it returns without error unless its own sink refuses the (empty) write.
C28_OkEndsRead ==
    \A i \in Callers :
        op[i].kind = "Get" =>
            \A k \in OkAt(op[i]) :
                /\ \A j \in DOMAIN op[i].log :
                      j > k => op[i].log[j].m.T # "ReadReq"
                /\ op[i].pc \in {"close", "recvClose", "ret", "done"}
                /\ op[i].err \in {NoErr, ErrSink}
                /\ Returned(op[i]) =>
                      /\ Len(op[i].log) > k
                      /\ op[i].log[k + 1].d = "w"
                      /\ op[i].log[k + 1].m.T = "CloseReq"
                      /\ op[i].err = NoErr => op[i].res = "ok"

\* a Get received data, then the status OK for its second ReadRequest, wrote
\* the CloseRequest and has returned without error
C28_Witness ==
    \E i \in Callers :
        /\ op[i].kind = "Get" /\ op[i].pc = "done"
        /\ OkAt(op[i]) = {6}
        /\ op[i].log[4].m.T = "DataResp"
        /\ op[i].log[7].m.T = "CloseReq"
        /\ op[i].res = "ok" /\ op[i].err = NoErr
        /\ op[i].sink # <<>>

\* C29: once Session.Close has cancelled the context, the handler goroutine
\* eventually returns, wherever it was when the context was cancelled.
C29_ReaderStopsAfterClose == ctxDone ~> (rpc = "done")

\* C30: the marshaled OpenDirRequest is the 4 bytes of the id, then a length
\* prefix equal to the number of bytes that follow it, then the bytes of the
\* path: the bytes a CloseRequest with that id and string is marshaled to.
C30_OpenDirLength ==
    (arg.fn = "OpenDirReq" /\ out.done) =>
        /\ SubSeq(out.b, 1, 4) = <<0, 0, 0, arg.id>>
        /\ BigEndian(SubSeq(out.b, 5, 8)) = Len(out.b) - 8
        /\ SubSeq(out.b, 9, Len(out.b)) = arg.path
        /\ out.b = out.close

\* the calls in flight hold pairwise distinct ids
DistinctIds ==
    \A i, j \in Callers :
        (i # j /\ InFlight(op[i]) /\ InFlight(op[j])) => op[i].id # op[j].id

\* a session in use by two concurrent callers whose ids differ: a call's
\* nextSeq returns once the value it reads is the id of no call in flight
InitWell == InitWith(RemoteSmall, Cardinality(Callers))

NextWell == Next /\ DistinctIds'

\* every goroutine that can take a step eventually takes one, and the
\* server answers every request
FairnessWell ==
    /\ WF_vars(Handler)
    /\ WF_vars(SessionInit)
    /\ WF_vars(ServerRespond)
    /\ \A i \in Callers : WF_vars(Call(i) /\ DistinctIds')

SpecWell == InitWell /\ [][NextWell]_vars /\ FairnessWell

\* the handler holds the mutex in its send of a message, and the call the
\* message is for waits for the mutex in getChan or delChan
MutualWait ==
    /\ rpc = "send" /\ rChanMtx /\ IsSequence(rmsg)
    /\ \E i \in Callers :
          InFlight(op[i]) /\ op[i].id = rmsg.Id /\ op[i].pc \in {"getChan", "ret"}

\* C31: with calls of pairwise distinct ids and a server that answers every
\* request once with a response that carries the request's id, the handler
\* and a call never wait on each other, a message the handler holds is for
\* a call that is about to receive it, and every call that has started
\* eventually returns and has unregistered its id.
C31_DeadlockFree ==
    /\ [](~MutualWait)
    /\ []((rpc = "send" /\ IsSequence(rmsg)) =>
             \E i \in Callers : Blocked(op[i]) /\ op[i].read = rch)
    /\ \A i \in Callers : (op[i].pc # "idle") ~> (op[i].pc = "done")

\* the handler holds the mutex in its send to caller 1, whose id is 1, while
\* caller 2, whose id is 2, has returned and waits for the mutex in delChan
C31_Witness ==
    /\ rpc = "send" /\ rChanMtx /\ IsSequence(rmsg)
    /\ rmsg.Id = 1 /\ op[1].id = 1 /\ Blocked(op[1])
    /\ op[2].id = 2 /\ op[2].pc = "ret" /\ Len(op[2].log) >= 2

\* a session in use with one caller and a server that lists directories and
\* serves file data, or a call of Find on a tree
InitPartial == InitData \/ InitFind

NextPartial == (arg.fn = "none" /\ Next) \/ CallFind

SpecPartial == InitPartial /\ [][NextPartial]_vars

\* C32: an Ls that returns an error returns no entries, whatever it has
\* received before; a Find that returns an error returns no tree, and its
\* error is the error of the listing of a nested directory that failed.
C32_NoPartialResults ==
    /\ \A i \in Callers :
          (op[i].kind = "Ls" /\ Returned(op[i])) =>
              /\ op[i].res = "err" <=> op[i].err # NoErr
              /\ op[i].err # NoErr => op[i].ret = <<>>
    /\ (arg.fn = "Find" /\ out.done /\ out.err # NoErr) =>
          /\ out.files = <<>>
          /\ \E k \in 1..(MaxDepth + 1) :
                /\ out.err = LsOf(arg.fs, DirPath(k)).err
                /\ \A j \in 0..(k - 1) :
                      /\ arg.fs[DirPath(j)].ok
                      /\ \E e \in Range(arg.fs[DirPath(j)].names) :
                            e.Filename = NameD /\ IsDir(e.Attrs.Permissions)

\* an Ls that had received a NameResponse with an entry was then answered
\* with the status Failure and has returned the error without entries
C32_Witness ==
    \E i \in Callers :
        /\ op[i].kind = "Ls" /\ op[i].pc = "done"
        /\ NamesReceived(op[i]) # <<>>
        /\ op[i].log[Len(op[i].log)].m.T = "StatusResp"
        /\ op[i].log[Len(op[i].log)].m.ErrorCode = SSH_FX_FAILURE
        /\ op[i].log[Len(op[i].log) - 1].m.T = "ReadDirReq"
        /\ op[i].err # NoErr /\ op[i].ret = <<>>

====
